---- MODULE Spec2Model ----
(***************************************************************************)
(* A model of the serenemind-io task planner (backend/tasks): the          *)
(* relational store behind models.py and the request handlers of views.py. *)
(* Every table is a function from primary key to row; every handler is one *)
(* action that performs all the statements of the handler, in order, up to *)
(* the statement that ends it.  The store runs in autocommit mode: the     *)
(* source opens no transaction, so each statement is durable on its own.   *)
(***************************************************************************)
EXTENDS Integers, Sequences, FiniteSets, TLC

VARIABLES
    tasks,          \* Task rows:          pk -> [user, title]
    templates,      \* Template rows:      pk -> [user, title, weekdays]
    templateTasks,  \* TemplateTask rows:  pk -> [template, task, order]
    lists,          \* DailyTaskList rows: pk -> [user, date, template]
    dailyTasks,     \* DailyTask rows:     pk -> [user, daily_task_list, template_task,
                    \*                            title, due_date, completed, completed_at,
                    \*                            order, is_adhoc]
    nextId,         \* the auto-increment sequence of each table
    now,            \* timezone.now(), a logical clock
    last,           \* the request served last and its response
    reqs            \* requests in flight (concurrent specifications only)

vars == <<tasks, templates, templateTasks, lists, dailyTasks, nextId, now, last, reqs>>

store == <<tasks, templates, templateTasks, lists, dailyTasks>>

----------------------------------------------------------------------------
(* Bounds of the model *)

MaxTemplates == 2       \* Template rows ever inserted (template requests alone)
MaxTplTaskRows == 1     \* TemplateTask rows ever inserted (template requests alone)

(* Program constants *)

OrderGap == 10                      \* order=template_task.order * 10
PositiveIntegerMax == 2147483647    \* the range of a PositiveIntegerField column
NoId == 0                           \* a null foreign key, an absent id
NoTime == 0                         \* completed_at = None
NoOrder == -1                       \* an absent "order" of a request (None)

(* Value domains of the requests *)

Users == {"u1", "u2"}

Weekday == <<"Monday", "Tuesday", "Wednesday", "Thursday", "Friday", "Saturday", "Sunday">>

WeekdayValues == {Weekday[i] : i \in 1..Len(Weekday)}

Days == {"Monday", "Tuesday"}       \* the weekdays requests draw from

BadDay == "Funday"                  \* a token that is no Weekday

Titles == {"a", "b"}

NoTitle == ""

Dates == {"d1", "d2"}

NoDate == ""

BigOrder == PositiveIntegerMax \div OrderGap + 1    \* an order whose tenfold leaves the column's range

----------------------------------------------------------------------------
(* Helpers on tables *)

EmptyTable == [pk \in {} |-> NoId]

Remove(table, pks) == [pk \in DOMAIN table \ pks |-> table[pk]]

Insert(table, pk, row) == [k \in DOMAIN table \cup {pk} |-> IF k = pk THEN row ELSE table[k]]

\* get_object_or_404(Model, pk=pk, user=request.user) finds a row
Owns(table, user, pk) == pk \in DOMAIN table /\ table[pk].user = user

RECURSIVE SetToSortedSeq(_, _)
\* the rows `pks` of `table` as a sequence ascending by (order, pk)
SetToSortedSeq(table, pks) ==
    IF pks = {} THEN <<>>
    ELSE LET m == CHOOSE x \in pks : \A y \in pks :
                    \/ table[x].order < table[y].order
                    \/ (table[x].order = table[y].order /\ x <= y)
         IN <<m>> \o SetToSortedSeq(table, pks \ {m})

MaxOf(S) ==
    IF S = {} THEN 0
    ELSE LET x == CHOOSE y \in S : \A z \in S : z <= y IN x

\* what `last` keeps of a request: the handler, the acting user, the row it
\* names or makes, the HTTP status and the kind of outcome, and (set by the
\* handlers they concern) the weekday set the request asks for, the days a
\* weekday conflict names, the date and the template of a schedule request,
\* the order a DailyTask had when a completion request found it, the
\* statistics a statistics request returns
Response(op, user, pk, status, kind) ==
    [op |-> op, user |-> user, pk |-> pk, status |-> status, kind |-> kind,
     weekdays |-> {}, days |-> {}, date |-> NoDate, template |-> NoId,
     order |-> NoOrder, stats |-> <<>>]

NoRequest == Response("none", "u1", NoId, 0, "none")

----------------------------------------------------------------------------
(* Template: validation and the template requests *)

\* Template.clean: the days of `weekdays` that another template of `user`
\* holds; the save raises ValidationError when there is one
clean_WrongUser(pk, user, weekdays) ==
    IF weekdays = {} THEN {}
    ELSE LET conflicting_templates ==
                {t \in DOMAIN templates :
                    /\ templates[t].user # user
                    /\ t # pk
                    /\ templates[t].weekdays \cap weekdays # {}}
         IN UNION {weekdays \cap templates[t].weekdays : t \in conflicting_templates}

clean_FirstOnly(pk, user, weekdays) ==
    IF weekdays = {} THEN {}
    ELSE LET conflicting_templates ==
                {t \in DOMAIN templates :
                    /\ templates[t].user = user
                    /\ t # pk
                    /\ templates[t].weekdays \cap weekdays # {}}
         IN IF conflicting_templates = {} THEN {}
            ELSE weekdays \cap templates[CHOOSE t \in conflicting_templates :
                                            \A x \in conflicting_templates : t <= x].weekdays

clean_NoExclude(pk, user, weekdays) ==
    IF weekdays = {} THEN {}
    ELSE LET conflicting_templates ==
                {t \in DOMAIN templates :
                    /\ templates[t].user = user
                    /\ templates[t].weekdays \cap weekdays # {}}
         IN UNION {weekdays \cap templates[t].weekdays : t \in conflicting_templates}

clean(pk, user, weekdays) ==
    IF weekdays = {} THEN {}
    ELSE LET conflicting_templates ==
                {t \in DOMAIN templates :
                    /\ templates[t].user = user
                    /\ t # pk
                    /\ templates[t].weekdays \cap weekdays # {}}
         IN UNION {weekdays \cap templates[t].weekdays : t \in conflicting_templates}

\* the loop that inserts one TemplateTask per entry of a request's "tasks"
\* list, up to the entry that ends the request: [tts, next, kind] where kind is
\* "ok", "bad_entry" (an entry without task_id or order) or "error" (an
\* exception: the task is not the user's, the pair (template, task) exists,
\* the order is outside the column's range)
RECURSIVE CreateTemplateTasks(_, _, _, _, _)
CreateTemplateTasks(tts, next, template, user, entries) ==
    IF entries = <<>> THEN [tts |-> tts, next |-> next, kind |-> "ok"]
    ELSE LET e == Head(entries) IN
         IF e.task_id = NoId \/ e.order = NoOrder
         THEN [tts |-> tts, next |-> next, kind |-> "bad_entry"]
         ELSE IF \/ e.task_id \notin DOMAIN tasks
                 \/ tasks[e.task_id].user # user
                 \/ \E x \in DOMAIN tts : tts[x].template = template /\ tts[x].task = e.task_id
                 \/ e.order > PositiveIntegerMax
         THEN [tts |-> tts, next |-> next, kind |-> "error"]
         ELSE CreateTemplateTasks(
                 Insert(tts, next, [template |-> template, task |-> e.task_id, order |-> e.order]),
                 next + 1, template, user, Tail(entries))

SetNullTemplateTask_Kept(dts, gone) == dts

SetNullTemplateTask_Cascade(dts, gone) ==
    [d \in {x \in DOMAIN dts : dts[x].template_task \notin gone} |-> dts[d]]

\* on_delete of the rows that go with TemplateTask rows: DailyTask.template_task
\* is SET_NULL
SetNullTemplateTask(dts, gone) ==
    [d \in DOMAIN dts |->
        IF dts[d].template_task \in gone THEN [dts[d] EXCEPT !.template_task = NoId] ELSE dts[d]]

TemplateTasksOf(template) == {x \in DOMAIN templateTasks : templateTasks[x].template = template}

\* TemplateCreateView.post
TemplateCreate(user, title, weekdays, entries) ==
    LET pk == nextId.template
        conflicting_days == clean(NoId, user, weekdays)
        loop == CreateTemplateTasks(templateTasks, nextId.tt, pk, user, entries)
        resp(id, status, kind) ==
            [Response("TemplateCreate", user, id, status, kind) EXCEPT !.weekdays = weekdays]
    IN
    IF title = NoTitle \/ ~(weekdays \subseteq WeekdayValues)
    THEN /\ last' = resp(NoId, 400, "bad_request")
         /\ UNCHANGED <<store, nextId, now, reqs>>
    ELSE IF conflicting_days # {}
    THEN \* template.save() raises before it writes
         /\ last' = [resp(NoId, 400, "weekday_conflict") EXCEPT !.days = conflicting_days]
         /\ UNCHANGED <<store, nextId, now, reqs>>
    ELSE /\ nextId' = [nextId EXCEPT !.template = pk + 1, !.tt = loop.next]
         /\ IF loop.kind = "bad_entry"
            THEN \* template.delete() takes the TemplateTask rows made so far with it
                 /\ last' = resp(NoId, 400, "bad_entry")
                 /\ UNCHANGED <<templates, templateTasks>>
            ELSE \* an exception in the loop is answered 500; the rows stay
                 /\ templates' = Insert(templates, pk,
                                        [user |-> user, title |-> title, weekdays |-> weekdays])
                 /\ templateTasks' = loop.tts
                 /\ last' = IF loop.kind = "ok" THEN resp(pk, 201, "ok") ELSE resp(pk, 500, "error")
         /\ UNCHANGED <<tasks, lists, dailyTasks, now, reqs>>

\* TemplateDetailView.put; has_weekdays and has_tasks tell whether the request
\* carries "weekdays" and "tasks", NoTitle is an absent or empty "title"
TemplateUpdate(user, pk, title, has_weekdays, weekdays, has_tasks, entries) ==
    LET resp(status, kind) == Response("TemplateUpdate", user, pk, status, kind) IN
    IF ~Owns(templates, user, pk)
    THEN /\ last' = Response("TemplateUpdate", user, NoId, 404, "not_found")
         /\ UNCHANGED <<store, nextId, now, reqs>>
    ELSE
    LET template == templates[pk]
        new_title == IF title # NoTitle THEN title ELSE template.title
        new_weekdays == IF has_weekdays THEN weekdays ELSE template.weekdays
        conflicting_days == clean(pk, user, new_weekdays)
        old == TemplateTasksOf(pk)
        loop == CreateTemplateTasks(Remove(templateTasks, old), nextId.tt, pk, user, entries)
        respw(status, kind) == [resp(status, kind) EXCEPT !.weekdays = new_weekdays]
    IN
    IF has_weekdays /\ ~(weekdays \subseteq WeekdayValues)
    THEN /\ last' = respw(400, "bad_request")
         /\ UNCHANGED <<store, nextId, now, reqs>>
    ELSE IF conflicting_days # {}
    THEN /\ last' = [respw(400, "weekday_conflict") EXCEPT !.days = conflicting_days]
         /\ UNCHANGED <<store, nextId, now, reqs>>
    ELSE /\ templates' = [templates EXCEPT ![pk] =
                             [user |-> user, title |-> new_title, weekdays |-> new_weekdays]]
         /\ IF has_tasks
            THEN \* the old rows are deleted before the new ones are made
                 /\ templateTasks' = loop.tts
                 /\ dailyTasks' = SetNullTemplateTask(dailyTasks, old)
                 /\ nextId' = [nextId EXCEPT !.tt = loop.next]
                 /\ last' = IF loop.kind = "ok" THEN respw(200, "ok")
                            ELSE IF loop.kind = "bad_entry" THEN respw(400, "bad_entry")
                            ELSE respw(500, "error")
            ELSE /\ last' = respw(200, "ok")
                 /\ UNCHANGED <<templateTasks, dailyTasks, nextId>>
         /\ UNCHANGED <<tasks, lists, now, reqs>>

Protected_Never(pk) == FALSE

\* DailyTaskList.template is PROTECT: a DailyTaskList refers to template `pk`
Protected(pk) == \E l \in DOMAIN lists : lists[l].template = pk

\* TemplateDetailView.delete
TemplateDelete(user, pk) ==
    LET resp(status, kind) == Response("TemplateDelete", user, pk, status, kind) IN
    IF ~Owns(templates, user, pk)
    THEN /\ last' = Response("TemplateDelete", user, NoId, 404, "not_found")
         /\ UNCHANGED <<store, nextId, now, reqs>>
    ELSE IF Protected(pk)
    THEN \* ProtectedError, nothing is deleted
         /\ last' = resp(400, "protected")
         /\ UNCHANGED <<store, nextId, now, reqs>>
    ELSE /\ templates' = Remove(templates, {pk})
         /\ templateTasks' = Remove(templateTasks, TemplateTasksOf(pk))
         /\ dailyTasks' = SetNullTemplateTask(dailyTasks, TemplateTasksOf(pk))
         /\ last' = resp(200, "ok")
         /\ UNCHANGED <<tasks, lists, nextId, now, reqs>>

----------------------------------------------------------------------------
(* Task: the library requests *)

\* TaskDetailView.put
TaskUpdate(user, pk, title) ==
    LET resp(status, kind) == Response("TaskUpdate", user, pk, status, kind) IN
    IF ~Owns(tasks, user, pk)
    THEN /\ last' = Response("TaskUpdate", user, NoId, 404, "not_found")
         /\ UNCHANGED <<store, nextId, now, reqs>>
    ELSE IF title = NoTitle
    THEN /\ last' = resp(400, "bad_request")
         /\ UNCHANGED <<store, nextId, now, reqs>>
    ELSE /\ tasks' = [tasks EXCEPT ![pk].title = title]
         /\ last' = resp(200, "ok")
         /\ UNCHANGED <<templates, templateTasks, lists, dailyTasks, nextId, now, reqs>>

\* TaskDetailView.delete: TemplateTask.task is CASCADE, DailyTask.template_task
\* is SET_NULL
TaskDelete(user, pk) ==
    LET resp(status, kind) == Response("TaskDelete", user, pk, status, kind)
        gone == {x \in DOMAIN templateTasks : templateTasks[x].task = pk}
    IN
    IF ~Owns(tasks, user, pk)
    THEN /\ last' = Response("TaskDelete", user, NoId, 404, "not_found")
         /\ UNCHANGED <<store, nextId, now, reqs>>
    ELSE /\ tasks' = Remove(tasks, {pk})
         /\ templateTasks' = Remove(templateTasks, gone)
         /\ dailyTasks' = SetNullTemplateTask(dailyTasks, gone)
         /\ last' = resp(200, "ok")
         /\ UNCHANGED <<templates, lists, nextId, now, reqs>>

----------------------------------------------------------------------------
(* DailyTaskList: materialization *)

\* order=template_task.order * 10 fits the DailyTask.order column
OrderFits(order) == order <= PositiveIntegerMax \div OrderGap

\* one DailyTask of _create_daily_tasks
NewDailyTask_NoGap(user, list, date, tt) ==
    [user |-> user, daily_task_list |-> list, template_task |-> tt,
     title |-> tasks[templateTasks[tt].task].title, due_date |-> date,
     completed |-> FALSE, completed_at |-> NoTime,
     order |-> templateTasks[tt].order, is_adhoc |-> FALSE]

NewDailyTask(user, list, date, tt) ==
    [user |-> user, daily_task_list |-> list, template_task |-> tt,
     title |-> tasks[templateTasks[tt].task].title, due_date |-> date,
     completed |-> FALSE, completed_at |-> NoTime,
     order |-> templateTasks[tt].order * OrderGap, is_adhoc |-> FALSE]

\* DailyTaskList._create_daily_tasks over the template's rows in `tts`, a
\* sequence ascending by order: [dts, next, kind], kind "error" when an insert
\* raises (the order is out of the column's range); the rows inserted before
\* it stay
RECURSIVE CreateDailyTasks(_, _, _, _, _, _)
CreateDailyTasks(dts, next, user, list, date, tts) ==
    IF tts = <<>> THEN [dts |-> dts, next |-> next, kind |-> "ok"]
    ELSE IF ~OrderFits(templateTasks[Head(tts)].order)
    THEN [dts |-> dts, next |-> next, kind |-> "error"]
    ELSE CreateDailyTasks(Insert(dts, next, NewDailyTask(user, list, date, Head(tts))),
                          next + 1, user, list, date, Tail(tts))

\* self.template.template_tasks.all().order_by('order')
OrderedTemplateTasks(template) == SetToSortedSeq(templateTasks, TemplateTasksOf(template))

ListExists_OtherUser(user, date) ==
    \E l \in DOMAIN lists : lists[l].user # user /\ lists[l].date = date

\* DailyTaskList.objects.filter(user=request.user, date=date).exists()
ListExists(user, date) == \E l \in DOMAIN lists : lists[l].user = user /\ lists[l].date = date

\* DailyTaskListCreateView.post, with DailyTaskList.save of the new row
DailyTaskListCreate(user, date, template_id) ==
    LET pk == nextId.list
        fail(status, kind) ==
            [Response("DailyTaskListCreate", user, NoId, status, kind)
                EXCEPT !.date = date, !.template = template_id]
        resp(id, status, kind) ==
            [Response("DailyTaskListCreate", user, id, status, kind)
                EXCEPT !.date = date, !.template = template_id]
        loop == CreateDailyTasks(dailyTasks, nextId.dt, user, pk, date,
                                 OrderedTemplateTasks(template_id))
    IN
    IF date = NoDate \/ template_id = NoId
    THEN /\ last' = Response("DailyTaskListCreate", user, NoId, 400, "bad_request")
         /\ UNCHANGED <<store, nextId, now, reqs>>
    ELSE IF ListExists(user, date)
    THEN /\ last' = fail(400, "conflict")
         /\ UNCHANGED <<store, nextId, now, reqs>>
    ELSE IF ~Owns(templates, user, template_id)
    THEN /\ last' = fail(404, "not_found")
         /\ UNCHANGED <<store, nextId, now, reqs>>
    ELSE \* the list row is inserted, then one DailyTask after the other
         /\ lists' = Insert(lists, pk, [user |-> user, date |-> date, template |-> template_id])
         /\ dailyTasks' = loop.dts
         /\ nextId' = [nextId EXCEPT !.list = pk + 1, !.dt = loop.next]
         /\ last' = IF loop.kind = "ok" THEN resp(pk, 201, "ok") ELSE resp(pk, 500, "error")
         /\ UNCHANGED <<tasks, templates, templateTasks, now, reqs>>

DailyTaskListSave_AlwaysNew(pk, template_id) ==
    LET resp(status, kind) == Response("DailyTaskListSave", lists[pk].user, pk, status, kind)
        loop == CreateDailyTasks(dailyTasks, nextId.dt, lists[pk].user, pk, lists[pk].date,
                                 OrderedTemplateTasks(template_id))
    IN
    /\ pk \in DOMAIN lists
    /\ IF template_id \notin DOMAIN templates \/ templates[template_id].user # lists[pk].user
       THEN /\ last' = resp(400, "bad_request")
            /\ UNCHANGED <<store, nextId, now, reqs>>
       ELSE /\ lists' = [lists EXCEPT ![pk].template = template_id]
            /\ dailyTasks' = loop.dts
            /\ nextId' = [nextId EXCEPT !.dt = loop.next]
            /\ last' = resp(200, "ok")
            /\ UNCHANGED <<tasks, templates, templateTasks, now, reqs>>

TemplateOfSameUser_Unchecked(user, template_id) == template_id \in DOMAIN templates

\* DailyTaskList.save: the template is there and self.template.user_id is
\* self.user_id
TemplateOfSameUser(user, template_id) ==
    template_id \in DOMAIN templates /\ templates[template_id].user = user

\* DailyTaskList.save of a row that exists (DailyTaskListAdmin): is_new is
\* false, the row is updated
DailyTaskListSave(pk, template_id) ==
    LET resp(status, kind) == Response("DailyTaskListSave", lists[pk].user, pk, status, kind)
    IN
    /\ pk \in DOMAIN lists
    /\ IF ~TemplateOfSameUser(lists[pk].user, template_id)
       THEN /\ last' = resp(400, "bad_request")
            /\ UNCHANGED <<store, nextId, now, reqs>>
       ELSE /\ lists' = [lists EXCEPT ![pk].template = template_id]
            /\ last' = resp(200, "ok")
            /\ UNCHANGED <<tasks, templates, templateTasks, dailyTasks, nextId, now, reqs>>

----------------------------------------------------------------------------
(* The template requests of two users over a fixed task library *)

Library ==
    (1 :> [user |-> "u1", title |-> "a"]) @@ (2 :> [user |-> "u1", title |-> "b"])
        @@ (3 :> [user |-> "u2", title |-> "a"])

\* "tasks" lists of a template request: none; an entry without task_id; a
\* task of u1 and then a task of u2
Entry(task_id, order) == [task_id |-> task_id, order |-> order]

TasksInputs == {<<>>, <<Entry(NoId, 1)>>, <<Entry(1, 1), Entry(3, 2)>>}

InitTpl ==
    /\ tasks = Library
    /\ templates = EmptyTable
    /\ templateTasks = EmptyTable
    /\ lists = EmptyTable
    /\ dailyTasks = EmptyTable
    /\ nextId = [task |-> 4, template |-> 1, tt |-> 1, list |-> 1, dt |-> 1]
    /\ now = 1
    /\ last = NoRequest
    /\ reqs = <<>>

TemplateIds == 1..MaxTemplates

\* the rows the sequences may hand out
WithinTpl == nextId'.template <= MaxTemplates + 1 /\ nextId'.tt <= MaxTplTaskRows + 1

\* the requests, one for each way the handler can take: a field the handler
\* does not come to read is left at its default, and a "tasks" list comes
\* with no weekdays or with Monday
TemplateCreateRequest ==
    \E u \in Users :
        \/ TemplateCreate(u, NoTitle, {}, <<>>)
        \/ TemplateCreate(u, "a", {BadDay}, <<>>)
        \/ \E w \in SUBSET Days : TemplateCreate(u, "a", w, <<>>) /\ WithinTpl
        \/ \E w \in {{}, {"Monday"}}, e \in TasksInputs \ {<<>>} :
                TemplateCreate(u, "a", w, e) /\ WithinTpl

TemplateUpdateRequest ==
    \E u \in Users, pk \in TemplateIds :
        IF ~Owns(templates, u, pk)
        THEN TemplateUpdate(u, pk, NoTitle, FALSE, {}, FALSE, <<>>)
        ELSE \/ TemplateUpdate(u, pk, NoTitle, TRUE, {BadDay}, FALSE, <<>>)
             \/ \E w \in SUBSET Days : TemplateUpdate(u, pk, NoTitle, TRUE, w, FALSE, <<>>)
             \/ \E e \in TasksInputs : TemplateUpdate(u, pk, NoTitle, FALSE, {}, TRUE, e) /\ WithinTpl
             \/ \E e \in TasksInputs \ {<<>>} :
                    TemplateUpdate(u, pk, NoTitle, TRUE, {"Monday"}, TRUE, e) /\ WithinTpl

TemplateDeleteRequest ==
    \E u \in Users, pk \in TemplateIds : TemplateDelete(u, pk)

NextTpl ==
    \/ TemplateCreateRequest
    \/ TemplateUpdateRequest
    \/ TemplateDeleteRequest

SpecTpl == InitTpl /\ [][NextTpl]_vars

----------------------------------------------------------------------------
(* Materialization requests over two templates, with the requests that     *)
(* change a template, its tasks and the library afterwards                 *)

MaxLists == 2           \* DailyTaskList rows ever inserted
MaxMatTaskRows == 1     \* TemplateTask rows inserted after the initial ones

TT(template, task, order) == [template |-> template, task |-> task, order |-> order]

MatTemplates ==
    (1 :> [user |-> "u1", title |-> "a", weekdays |-> {"Monday"}])
        @@ (2 :> [user |-> "u2", title |-> "a", weekdays |-> {}])

\* the TemplateTask rows at the start: template 2 binds task 3; template 1
\* binds nothing, one task, two tasks in reverse order of their rows, or two
\* tasks the second of which has an order whose tenfold is out of range
MatTemplateTasks ==
    {(3 :> TT(2, 3, 1)),
     (1 :> TT(1, 1, 1)) @@ (3 :> TT(2, 3, 1)),
     (1 :> TT(1, 1, 2)) @@ (2 :> TT(1, 2, 1)) @@ (3 :> TT(2, 3, 1)),
     (1 :> TT(1, 1, 1)) @@ (2 :> TT(1, 2, BigOrder)) @@ (3 :> TT(2, 3, 1))}

InitMat ==
    /\ tasks = Library
    /\ templates = MatTemplates
    /\ templateTasks \in MatTemplateTasks
    /\ lists = EmptyTable
    /\ dailyTasks = EmptyTable
    /\ nextId = [task |-> 4, template |-> 3, tt |-> 4, list |-> 1, dt |-> 1]
    /\ now = 1
    /\ last = NoRequest
    /\ reqs = <<>>

WithinMat == nextId'.list <= MaxLists + 1 /\ nextId'.tt <= 3 + MaxMatTaskRows + 1

\* u1 asks for either date, u2 for the first
DailyTaskListCreateRequest ==
    \E u \in Users, date \in Dates \cup {NoDate}, t \in {NoId, 1, 2, 3} :
        /\ (u = "u2" => date # "d2")
        /\ DailyTaskListCreate(u, date, t) /\ WithinMat

DailyTaskListSaveRequest ==
    \E pk \in DOMAIN lists, t \in {1, 2} : DailyTaskListSave(pk, t)

MatTemplateUpdateRequest ==
    \/ TemplateUpdate("u1", 1, "b", TRUE, {"Tuesday"}, FALSE, <<>>)
    \/ \E e \in {<<>>, <<Entry(2, 3)>>} :
            TemplateUpdate("u1", 1, NoTitle, FALSE, {}, TRUE, e) /\ WithinMat

MatTemplateDeleteRequest ==
    \E u \in Users, pk \in {1, 2} : TemplateDelete(u, pk)

TaskUpdateRequest ==
    \E u \in Users, title \in {"b", NoTitle} : TaskUpdate(u, 1, title)

TaskDeleteRequest ==
    \E u \in Users : TaskDelete(u, 2)

NextMat ==
    \/ DailyTaskListCreateRequest
    \/ DailyTaskListSaveRequest
    \/ MatTemplateUpdateRequest
    \/ MatTemplateDeleteRequest
    \/ TaskUpdateRequest
    \/ TaskDeleteRequest

SpecMat == InitMat /\ [][NextMat]_vars

----------------------------------------------------------------------------
(* Concurrent materialize requests: every statement of                     *)
(* DailyTaskListCreateView.post that reads or writes the store is a step   *)
(* of its own, and the steps of the requests interleave                    *)

NumRequests == 2        \* requests in flight

Requests == 1..NumRequests

Idle == [pc |-> "idle", user |-> "u1", date |-> NoDate, template |-> NoId,
         list |-> NoId, todo |-> <<>>, made |-> {}, kind |-> "none"]

InitConc ==
    /\ tasks = Library
    /\ templates = MatTemplates
    /\ templateTasks \in MatTemplateTasks
    /\ lists = EmptyTable
    /\ dailyTasks = EmptyTable
    /\ nextId = [task |-> 4, template |-> 3, tt |-> 4, list |-> 1, dt |-> 1]
    /\ now = 1
    /\ last = NoRequest
    /\ reqs = [r \in Requests |-> Idle]

\* the request ends with this kind of response
Finish(r, kind) == reqs' = [reqs EXCEPT ![r].pc = "done", ![r].kind = kind]

UniqueTogether_Absent(user, date) == TRUE

\* unique_together = ['user', 'date']: the store accepts the row
UniqueTogether(user, date) == ~ListExists(user, date)

\* a request arrives
Arrive(r, user, date, template_id) ==
    /\ reqs[r].pc = "idle"
    /\ reqs' = [reqs EXCEPT ![r] = [Idle EXCEPT !.pc = "exists", !.user = user,
                                                !.date = date, !.template = template_id]]
    /\ UNCHANGED <<store, nextId, now, last>>

\* DailyTaskList.objects.filter(user=request.user, date=date).exists()
CheckExists(r) ==
    /\ reqs[r].pc = "exists"
    /\ IF ListExists(reqs[r].user, reqs[r].date)
       THEN Finish(r, "conflict")
       ELSE reqs' = [reqs EXCEPT ![r].pc = "get"]
    /\ UNCHANGED <<store, nextId, now, last>>

\* Template.objects...get(id=template_id, user=request.user)
GetTemplate(r) ==
    /\ reqs[r].pc = "get"
    /\ IF Owns(templates, reqs[r].user, reqs[r].template)
       THEN reqs' = [reqs EXCEPT ![r].pc = "insert"]
       ELSE Finish(r, "not_found")
    /\ UNCHANGED <<store, nextId, now, last>>

\* super().save() of DailyTaskList.save: the INSERT, which the unique
\* constraint may refuse (IntegrityError, answered 500)
InsertList(r) ==
    /\ reqs[r].pc = "insert"
    /\ IF UniqueTogether(reqs[r].user, reqs[r].date)
       THEN /\ lists' = Insert(lists, nextId.list,
                               [user |-> reqs[r].user, date |-> reqs[r].date,
                                template |-> reqs[r].template])
            /\ nextId' = [nextId EXCEPT !.list = @ + 1]
            /\ reqs' = [reqs EXCEPT ![r].pc = "query", ![r].list = nextId.list]
       ELSE /\ Finish(r, "error")
            /\ UNCHANGED <<lists, nextId>>
    /\ UNCHANGED <<tasks, templates, templateTasks, dailyTasks, now, last>>

\* self.template.template_tasks.all().order_by('order'): the rows to copy
QueryTemplateTasks(r) ==
    /\ reqs[r].pc = "query"
    /\ reqs' = [reqs EXCEPT ![r].pc = "create",
                            ![r].todo = OrderedTemplateTasks(reqs[r].template)]
    /\ UNCHANGED <<store, nextId, now, last>>

\* one DailyTask.objects.create of the loop, or the end of the loop
CreateDailyTask(r) ==
    /\ reqs[r].pc = "create"
    /\ IF reqs[r].todo = <<>>
       THEN Finish(r, "ok") /\ UNCHANGED <<dailyTasks, nextId>>
       ELSE IF ~OrderFits(templateTasks[Head(reqs[r].todo)].order)
       THEN Finish(r, "error") /\ UNCHANGED <<dailyTasks, nextId>>
       ELSE /\ dailyTasks' = Insert(dailyTasks, nextId.dt,
                                    NewDailyTask(reqs[r].user, reqs[r].list, reqs[r].date,
                                                 Head(reqs[r].todo)))
            /\ nextId' = [nextId EXCEPT !.dt = @ + 1]
            /\ reqs' = [reqs EXCEPT ![r].todo = Tail(@), ![r].made = @ \cup {nextId.dt}]
    /\ UNCHANGED <<tasks, templates, templateTasks, lists, now, last>>

NextConc ==
    \/ \E r \in Requests, u \in Users, date \in Dates, t \in {1, 2} : Arrive(r, u, date, t)
    \/ \E r \in Requests : CheckExists(r)
    \/ \E r \in Requests : GetTemplate(r)
    \/ \E r \in Requests : InsertList(r)
    \/ \E r \in Requests : QueryTemplateTasks(r)
    \/ \E r \in Requests : CreateDailyTask(r)

SpecConc == InitConc /\ [][NextConc]_vars

----------------------------------------------------------------------------
(* DailyTask: adhoc tasks, completion and reopening *)

AdhocStep == 10     \* (max_order or 0) + 10

IncompleteAdhoc_AnyUser(dts, user) ==
    {d \in DOMAIN dts : dts[d].is_adhoc /\ ~dts[d].completed}

IncompleteAdhoc_WithCompleted(dts, user) ==
    {d \in DOMAIN dts : dts[d].user = user /\ dts[d].is_adhoc}

\* filter(user=request.user, is_adhoc=True, completed=False)
IncompleteAdhoc(dts, user) ==
    {d \in DOMAIN dts : dts[d].user = user /\ dts[d].is_adhoc /\ ~dts[d].completed}

NextAdhocOrder_NoStep(dts, user) ==
    IF IncompleteAdhoc(dts, user) = {} THEN AdhocStep
    ELSE MaxOf({dts[d].order : d \in IncompleteAdhoc(dts, user)})

\* (max_order or 0) + 10 over the user's incomplete adhoc tasks
NextAdhocOrder(dts, user) ==
    MaxOf({dts[d].order : d \in IncompleteAdhoc(dts, user)}) + AdhocStep

\* the order column takes the value
OrderInRange(order) == order >= 0 /\ order <= PositiveIntegerMax

\* the order column takes (max_order or 0) + 10
NextOrderInRange(dts, user) ==
    MaxOf({dts[d].order : d \in IncompleteAdhoc(dts, user)}) <= PositiveIntegerMax - AdhocStep

\* AdhocTaskCreateView.post
AdhocTaskCreate(user, title, due_date) ==
    LET order == NextAdhocOrder(dailyTasks, user) IN
    IF title = NoTitle \/ due_date = NoDate
    THEN /\ last' = Response("AdhocTaskCreate", user, NoId, 400, "bad_request")
         /\ UNCHANGED <<store, nextId, now, reqs>>
    ELSE IF ~NextOrderInRange(dailyTasks, user)
    THEN /\ last' = Response("AdhocTaskCreate", user, NoId, 500, "error")
         /\ UNCHANGED <<store, nextId, now, reqs>>
    ELSE /\ dailyTasks' = Insert(dailyTasks, nextId.dt,
                                 [user |-> user, daily_task_list |-> NoId,
                                  template_task |-> NoId, title |-> title,
                                  due_date |-> due_date, completed |-> FALSE,
                                  completed_at |-> NoTime, order |-> order,
                                  is_adhoc |-> TRUE])
         /\ nextId' = [nextId EXCEPT !.dt = @ + 1]
         /\ last' = Response("AdhocTaskCreate", user, nextId.dt, 201, "ok")
         /\ UNCHANGED <<tasks, templates, templateTasks, lists, now, reqs>>

\* DailyTask.mark_complete
mark_complete(task) == [task EXCEPT !.completed = TRUE, !.completed_at = now]

mark_incomplete_KeepsTime(task) == [task EXCEPT !.completed = FALSE]

\* DailyTask.mark_incomplete
mark_incomplete(task) == [task EXCEPT !.completed = FALSE, !.completed_at = NoTime]

CompletedOrder_Kept(task) == task.order

CompletedOrder_Zero(task) == 0

\* DailyTaskCompleteView.post: the order the task is completed with
CompletedOrder(task) == IF task.is_adhoc THEN 0 ELSE task.order

\* DailyTaskCompleteView.post
DailyTaskComplete(user, pk) ==
    IF ~Owns(dailyTasks, user, pk)
    THEN /\ last' = Response("DailyTaskComplete", user, NoId, 404, "not_found")
         /\ UNCHANGED <<store, nextId, now, reqs>>
    ELSE /\ dailyTasks' = [dailyTasks EXCEPT ![pk] =
                               mark_complete([dailyTasks[pk] EXCEPT
                                                 !.order = CompletedOrder(dailyTasks[pk])])]
         /\ last' = [Response("DailyTaskComplete", user, pk, 200, "ok")
                        EXCEPT !.order = dailyTasks[pk].order]
         /\ UNCHANGED <<tasks, templates, templateTasks, lists, nextId, now, reqs>>

\* DailyTaskIncompleteView.post: mark_incomplete saves the row, then the
\* maximum is read and the row saved again with its new order
DailyTaskIncomplete(user, pk) ==
    LET saved == [dailyTasks EXCEPT ![pk] = mark_incomplete(@)]
        order == NextAdhocOrder(saved, user)
    IN
    IF ~Owns(dailyTasks, user, pk)
    THEN /\ last' = Response("DailyTaskIncomplete", user, NoId, 404, "not_found")
         /\ UNCHANGED <<store, nextId, now, reqs>>
    ELSE IF ~dailyTasks[pk].is_adhoc
    THEN /\ dailyTasks' = saved
         /\ last' = Response("DailyTaskIncomplete", user, pk, 200, "ok")
         /\ UNCHANGED <<tasks, templates, templateTasks, lists, nextId, now, reqs>>
    ELSE IF ~NextOrderInRange(saved, user)
    THEN /\ dailyTasks' = saved
         /\ last' = Response("DailyTaskIncomplete", user, pk, 500, "error")
         /\ UNCHANGED <<tasks, templates, templateTasks, lists, nextId, now, reqs>>
    ELSE /\ dailyTasks' = [saved EXCEPT ![pk].order = order]
         /\ last' = Response("DailyTaskIncomplete", user, pk, 200, "ok")
         /\ UNCHANGED <<tasks, templates, templateTasks, lists, nextId, now, reqs>>

\* DailyTaskDetailView.put with the fields title, order, completed and
\* due_date, each optional (has_...): mark_complete and mark_incomplete save
\* the row, with the title and the order set so far, before the due date is
\* assigned, so a due date the final save refuses (NoDate) leaves that first
\* save in place
DailyTaskUpdate(user, pk, has_title, title, has_order, order, has_completed, completed, has_due_date, due_date) ==
    LET task == dailyTasks[pk]
        titled == IF has_title THEN [task EXCEPT !.title = title] ELSE task
        ordered == IF has_order THEN [titled EXCEPT !.order = order] ELSE titled
        marks == has_completed /\ completed # task.completed
        updated == IF has_completed /\ completed /\ ~task.completed
                       THEN mark_complete(ordered)
                   ELSE IF has_completed /\ ~completed /\ task.completed
                       THEN mark_incomplete(ordered)
                   ELSE ordered
        dated == IF has_due_date THEN [updated EXCEPT !.due_date = due_date] ELSE updated
    IN
    IF ~Owns(dailyTasks, user, pk)
    THEN /\ last' = Response("DailyTaskUpdate", user, NoId, 404, "not_found")
         /\ UNCHANGED <<store, nextId, now, reqs>>
    ELSE IF ~OrderInRange(updated.order)
    THEN /\ last' = Response("DailyTaskUpdate", user, pk, 500, "error")
         /\ UNCHANGED <<store, nextId, now, reqs>>
    ELSE IF dated.due_date = NoDate
    THEN /\ dailyTasks' = IF marks THEN [dailyTasks EXCEPT ![pk] = updated] ELSE dailyTasks
         /\ last' = Response("DailyTaskUpdate", user, pk, 500, "error")
         /\ UNCHANGED <<tasks, templates, templateTasks, lists, nextId, now, reqs>>
    ELSE /\ dailyTasks' = [dailyTasks EXCEPT ![pk] = dated]
         /\ last' = Response("DailyTaskUpdate", user, pk, 200, "ok")
         /\ UNCHANGED <<tasks, templates, templateTasks, lists, nextId, now, reqs>>

\* the rows that go with DailyTask `pk` when it is deleted: no model has a
\* foreign key to DailyTask, so the row alone
DeletedWith_List(pk) ==
    {d \in DOMAIN dailyTasks : d = pk \/ (dailyTasks[pk].daily_task_list # NoId
         /\ dailyTasks[d].daily_task_list = dailyTasks[pk].daily_task_list)}

DeletedWith(pk) == {pk}

\* DailyTaskDetailView.delete
DailyTaskDelete(user, pk) ==
    IF ~Owns(dailyTasks, user, pk)
    THEN /\ last' = Response("DailyTaskDelete", user, NoId, 404, "not_found")
         /\ UNCHANGED <<store, nextId, now, reqs>>
    ELSE /\ dailyTasks' = Remove(dailyTasks, DeletedWith(pk))
         /\ last' = Response("DailyTaskDelete", user, pk, 200, "ok")
         /\ UNCHANGED <<tasks, templates, templateTasks, lists, nextId, now, reqs>>

\* time passes between two requests
Tick ==
    /\ now' = now + 1
    /\ last' = NoRequest
    /\ UNCHANGED <<store, nextId, reqs>>

----------------------------------------------------------------------------
(* Adhoc tasks: the users make adhoc tasks next to a materialized schedule *)
(* of u1, and complete, reopen and update them                             *)

MaxAdhocTasks == 2      \* adhoc DailyTask rows ever inserted
MaxAdhocOrder == 20     \* the largest order a DailyTask gets
MaxClock == 2           \* the last instant of the clock

PutOrder == MaxAdhocOrder \div 2   \* the order an update request asks for

InitAdhoc ==
    /\ tasks = Library
    /\ templates = MatTemplates
    /\ templateTasks = (1 :> TT(1, 1, 1))
    /\ lists = (1 :> [user |-> "u1", date |-> "d1", template |-> 1])
    /\ dailyTasks = (1 :> NewDailyTask("u1", 1, "d1", 1))
    /\ nextId = [task |-> 4, template |-> 3, tt |-> 2, list |-> 2, dt |-> 2]
    /\ now = 1
    /\ last = NoRequest
    /\ reqs = <<>>

WithinAdhoc ==
    /\ nextId'.dt <= 1 + MaxAdhocTasks + 1
    /\ \A d \in DOMAIN dailyTasks' : dailyTasks'[d].order <= MaxAdhocOrder

DailyTaskIds == 1..(1 + MaxAdhocTasks)

\* the requests made: on an adhoc task of one's own, and by u2 on the task
\* of u1's schedule
Asks(user, pk) == (Owns(dailyTasks, user, pk) /\ pk # 1) \/ (pk = 1 /\ user = "u2")

AdhocTaskCreateRequest ==
    \E u \in Users, title \in {"a", NoTitle} :
        AdhocTaskCreate(u, title, IF title = NoTitle THEN NoDate ELSE "d1") /\ WithinAdhoc

DailyTaskCompleteRequest ==
    \E u \in Users, pk \in DailyTaskIds :
        Asks(u, pk) /\ DailyTaskComplete(u, pk) /\ WithinAdhoc

DailyTaskIncompleteRequest ==
    \E u \in Users, pk \in DailyTaskIds :
        Asks(u, pk) /\ DailyTaskIncomplete(u, pk) /\ WithinAdhoc

\* an update of the order, or of the completed flag
DailyTaskUpdateRequest ==
    \E u \in Users, pk \in DailyTaskIds :
        /\ Asks(u, pk)
        /\ \/ DailyTaskUpdate(u, pk, FALSE, NoTitle, TRUE, PutOrder, FALSE, FALSE, FALSE, NoDate)
           \/ \E completed \in BOOLEAN : DailyTaskUpdate(u, pk, FALSE, NoTitle, FALSE, NoOrder, TRUE, completed, FALSE, NoDate)
        /\ WithinAdhoc

TickRequest == now < MaxClock /\ Tick

NextAdhoc ==
    \/ AdhocTaskCreateRequest
    \/ DailyTaskCompleteRequest
    \/ DailyTaskIncompleteRequest
    \/ DailyTaskUpdateRequest
    \/ TickRequest

SpecAdhoc == InitAdhoc /\ [][NextAdhoc]_vars

----------------------------------------------------------------------------
(* Schedules in use: the users materialize their templates for a date and  *)
(* complete and reopen the tasks, with the dedicated requests and with     *)
(* the completed field of the update request                               *)

SchedTemplateTasks == (1 :> TT(1, 1, 2)) @@ (2 :> TT(1, 2, 1)) @@ (3 :> TT(2, 3, 1))

InitSched ==
    /\ tasks = Library
    /\ templates = MatTemplates
    /\ templateTasks = SchedTemplateTasks
    /\ lists = EmptyTable
    /\ dailyTasks = EmptyTable
    /\ nextId = [task |-> 4, template |-> 3, tt |-> 4, list |-> 1, dt |-> 1]
    /\ now = 1
    /\ last = NoRequest
    /\ reqs = <<>>

SchedTaskIds == 1..Cardinality(DOMAIN SchedTemplateTasks)

SchedMaterializeRequest ==
    \E u \in Users, t \in DOMAIN MatTemplates : DailyTaskListCreate(u, "d1", t)

SchedCompleteRequest ==
    \E u \in Users, pk \in SchedTaskIds : DailyTaskComplete(u, pk)

SchedIncompleteRequest ==
    \E u \in Users, pk \in SchedTaskIds : DailyTaskIncomplete(u, pk)

SchedUpdateRequest ==
    \E u \in Users, pk \in SchedTaskIds, completed \in BOOLEAN :
        DailyTaskUpdate(u, pk, FALSE, NoTitle, FALSE, NoOrder, TRUE, completed, FALSE, NoDate)

NextSched ==
    \/ SchedMaterializeRequest
    \/ SchedCompleteRequest
    \/ SchedIncompleteRequest
    \/ SchedUpdateRequest
    \/ TickRequest

SpecSched == InitSched /\ [][NextSched]_vars

----------------------------------------------------------------------------
(* The library under schedules: the users materialize their templates,     *)
(* complete tasks, and delete library tasks and templates                  *)

LibMaterializeRequest ==
    \E u \in Users, t \in DOMAIN MatTemplates : DailyTaskListCreate(u, "d1", t)

LibCompleteRequest ==
    \E u \in Users, pk \in SchedTaskIds : DailyTaskComplete(u, pk)

LibTaskDeleteRequest ==
    \E u \in Users, pk \in DOMAIN Library : TaskDelete(u, pk)

LibTemplateDeleteRequest ==
    \E u \in Users, pk \in DOMAIN MatTemplates : TemplateDelete(u, pk)

NextLib ==
    \/ LibMaterializeRequest
    \/ LibCompleteRequest
    \/ LibTaskDeleteRequest
    \/ LibTemplateDeleteRequest

SpecLib == InitSched /\ [][NextLib]_vars

----------------------------------------------------------------------------
(* Completion statistics *)

Hundredths == 100       \* round(completion_rate, 2): rates are kept in hundredths

Round2_Truncated(completed, total) == (completed * 100 * Hundredths) \div total

\* round(completed / total * 100, 2), in hundredths: the hundredth nearest to
\* the quotient, the even one of two equally near
Round2(completed, total) ==
    LET q == (completed * 100 * Hundredths) \div total
        r == (completed * 100 * Hundredths) % total
    IN IF 2 * r > total THEN q + 1
       ELSE IF 2 * r < total THEN q
       ELSE IF q % 2 = 0 THEN q ELSE q + 1

\* TaskCompletionStatsView.get: one entry for each TemplateTask of the
\* templates of `user`
Stats(user) ==
    [tt \in {x \in DOMAIN templateTasks : templates[templateTasks[x].template].user = user} |->
        LET daily_tasks == {d \in DOMAIN dailyTasks : dailyTasks[d].template_task = tt}
            total == Cardinality(daily_tasks)
            completed == Cardinality({d \in daily_tasks : dailyTasks[d].completed})
        IN [template |-> templates[templateTasks[tt].template].title,
            task |-> tasks[templateTasks[tt].task].title,
            total_instances |-> total,
            completed_instances |-> completed,
            completion_rate |-> IF total > 0 THEN Round2(completed, total) ELSE 0]]

TaskCompletionStats(user) ==
    /\ last' = [Response("TaskCompletionStats", user, NoId, 200, "ok")
                    EXCEPT !.stats = Stats(user)]
    /\ UNCHANGED <<store, nextId, now, reqs>>

----------------------------------------------------------------------------
(* Statistics over schedules: u1 has materialized a template of two tasks  *)
(* for a number of dates and deleted two of the tasks, u2 has no schedule; *)
(* u1 completes and reopens the tasks, and both users read their           *)
(* statistics                                                              *)

MaxStatLists == 5       \* the schedules of u1

StatDates == <<"d1", "d2", "d3", "d4", "d5", "d6", "d7">>

RECURSIVE StatDailyTasks(_)
\* the DailyTasks of the first n schedules, as materialization makes them
StatDailyTasks(n) ==
    IF n = 0 THEN EmptyTable
    ELSE CreateDailyTasks(StatDailyTasks(n - 1), 2 * n - 1, "u1", n, StatDates[n],
                          OrderedTemplateTasks(1)).dts

\* u1 has deleted the second task of the template from the last two schedules
StatDeleted ==
    {d \in DOMAIN StatDailyTasks(MaxStatLists) :
        /\ StatDailyTasks(MaxStatLists)[d].template_task = 2
        /\ StatDailyTasks(MaxStatLists)[d].daily_task_list > MaxStatLists - 2}

InitStats ==
    /\ tasks = Library
    /\ templates = MatTemplates
    /\ templateTasks = SchedTemplateTasks
    /\ lists = [l \in 1..MaxStatLists |-> [user |-> "u1", date |-> StatDates[l], template |-> 1]]
    /\ dailyTasks = Remove(StatDailyTasks(MaxStatLists), StatDeleted)
    /\ nextId = [task |-> 4, template |-> 3, tt |-> 4,
                 list |-> MaxStatLists + 1, dt |-> 2 * MaxStatLists + 1]
    /\ now = 1
    /\ last = NoRequest
    /\ reqs = <<>>

StatCompleteRequest ==
    \E pk \in DOMAIN dailyTasks : DailyTaskComplete(dailyTasks[pk].user, pk)

StatIncompleteRequest ==
    \E pk \in DOMAIN dailyTasks : DailyTaskIncomplete(dailyTasks[pk].user, pk)

StatsRequest == \E u \in Users : TaskCompletionStats(u)

NextStats ==
    \/ StatCompleteRequest
    \/ StatIncompleteRequest
    \/ StatsRequest

SpecStats == InitStats /\ [][NextStats]_vars

----------------------------------------------------------------------------
(* Concurrent template requests: the validation query of Template.clean    *)
(* and the write of Template.save are steps of their own, and the steps of *)
(* the requests interleave; the requests carry a title and weekdays        *)

\* a create request names no template
TplIdle == [pc |-> "idle", user |-> "u1", pk |-> NoId, weekdays |-> {}, kind |-> "none"]

InitTplConc ==
    /\ tasks = Library
    /\ templates = (1 :> [user |-> "u1", title |-> "a", weekdays |-> {}])
    /\ templateTasks = EmptyTable
    /\ lists = EmptyTable
    /\ dailyTasks = EmptyTable
    /\ nextId = [task |-> 4, template |-> 2, tt |-> 1, list |-> 1, dt |-> 1]
    /\ now = 1
    /\ last = NoRequest
    /\ reqs = [r \in Requests |-> TplIdle]

\* a create (pk = NoId) or update request arrives; get_object_or_404 of the
\* update finds the template
ArriveTpl(r, user, pk, weekdays) ==
    /\ reqs[r].pc = "idle"
    /\ pk # NoId => Owns(templates, user, pk)
    /\ reqs' = [reqs EXCEPT ![r] = [TplIdle EXCEPT !.pc = "clean", !.user = user,
                                                  !.pk = pk, !.weekdays = weekdays]]
    /\ UNCHANGED <<store, nextId, now, last>>

\* full_clean() of Template.save: the query of Template.clean
CleanTpl(r) ==
    /\ reqs[r].pc = "clean"
    /\ IF clean(reqs[r].pk, reqs[r].user, reqs[r].weekdays) # {}
       THEN Finish(r, "weekday_conflict")
       ELSE reqs' = [reqs EXCEPT ![r].pc = "save"]
    /\ UNCHANGED <<store, nextId, now, last>>

\* super().save() of Template.save: the INSERT or UPDATE of the row
SaveTpl(r) ==
    /\ reqs[r].pc = "save"
    /\ IF reqs[r].pk = NoId
       THEN /\ templates' = Insert(templates, nextId.template,
                                   [user |-> reqs[r].user, title |-> "a",
                                    weekdays |-> reqs[r].weekdays])
            /\ nextId' = [nextId EXCEPT !.template = @ + 1]
            /\ reqs' = [reqs EXCEPT ![r].pc = "done", ![r].kind = "ok",
                                    ![r].pk = nextId.template]
       ELSE /\ templates' = [templates EXCEPT ![reqs[r].pk].weekdays = reqs[r].weekdays]
            /\ Finish(r, "ok")
            /\ UNCHANGED nextId
    /\ UNCHANGED <<tasks, templateTasks, lists, dailyTasks, now, last>>

NextTplConc ==
    \/ \E r \in Requests, u \in Users, pk \in {NoId, 1}, w \in SUBSET Days \ {{}} :
            ArriveTpl(r, u, pk, w)
    \/ \E r \in Requests : CleanTpl(r)
    \/ \E r \in Requests : SaveTpl(r)

SpecTplConc == InitTplConc /\ [][NextTplConc]_vars

----------------------------------------------------------------------------
(* Concurrent adhoc requests: create and reopen requests of users whose    *)
(* statements (the save of mark_incomplete, the Max('order') query, the    *)
(* write of the order) are steps of their own and interleave               *)

\* a create request names no task
AdhocIdle == [pc |-> "idle", user |-> "u1", pk |-> NoId, order |-> NoOrder, kind |-> "none"]

AdhocRow(user, order, completed) ==
    [user |-> user, daily_task_list |-> NoId, template_task |-> NoId, title |-> "a",
     due_date |-> "d1", completed |-> completed,
     completed_at |-> IF completed THEN 1 ELSE NoTime, order |-> order, is_adhoc |-> TRUE]

\* u1 has made three adhoc tasks and completed the last two, u2 one
InitAdhocConc ==
    /\ tasks = Library
    /\ templates = EmptyTable
    /\ templateTasks = EmptyTable
    /\ lists = EmptyTable
    /\ dailyTasks = (1 :> AdhocRow("u1", AdhocStep, FALSE)) @@ (2 :> AdhocRow("u1", 0, TRUE))
                        @@ (3 :> AdhocRow("u1", 0, TRUE)) @@ (4 :> AdhocRow("u2", AdhocStep, FALSE))
    /\ nextId = [task |-> 4, template |-> 1, tt |-> 1, list |-> 1, dt |-> 5]
    /\ now = 1
    /\ last = NoRequest
    /\ reqs = [r \in Requests |-> AdhocIdle]

\* a create (pk = NoId) or reopen request arrives; get_object_or_404 of the
\* reopen finds the task
ArriveAdhoc(r, user, pk) ==
    /\ reqs[r].pc = "idle"
    /\ pk # NoId => Owns(dailyTasks, user, pk)
    /\ reqs' = [reqs EXCEPT ![r] = [AdhocIdle EXCEPT !.pc = IF pk = NoId THEN "read" ELSE "mark",
                                                    !.user = user, !.pk = pk]]
    /\ UNCHANGED <<store, nextId, now, last>>

\* task.mark_incomplete() of the reopen: the row is saved as incomplete
MarkIncomplete(r) ==
    /\ reqs[r].pc = "mark"
    /\ dailyTasks' = [dailyTasks EXCEPT ![reqs[r].pk] = mark_incomplete(@)]
    /\ reqs' = [reqs EXCEPT ![r].pc = "read"]
    /\ UNCHANGED <<tasks, templates, templateTasks, lists, nextId, now, last>>

\* the Max('order') query and (max_order or 0) + 10
ReadMaxOrder(r) ==
    /\ reqs[r].pc = "read"
    /\ reqs' = [reqs EXCEPT ![r].pc = "write",
                            ![r].order = NextAdhocOrder(dailyTasks, reqs[r].user)]
    /\ UNCHANGED <<store, nextId, now, last>>

\* DailyTask.objects.create of the create, task.save() of the reopen (no
\* other field of the row differs from the stored one here)
WriteOrder(r) ==
    /\ reqs[r].pc = "write"
    /\ IF reqs[r].pk = NoId
       THEN /\ dailyTasks' = Insert(dailyTasks, nextId.dt,
                                    AdhocRow(reqs[r].user, reqs[r].order, FALSE))
            /\ nextId' = [nextId EXCEPT !.dt = @ + 1]
            /\ reqs' = [reqs EXCEPT ![r].pc = "done", ![r].kind = "ok", ![r].pk = nextId.dt]
       ELSE /\ dailyTasks' = [dailyTasks EXCEPT ![reqs[r].pk] =
                                  [mark_incomplete(@) EXCEPT !.order = reqs[r].order]]
            /\ Finish(r, "ok")
            /\ UNCHANGED nextId
    /\ UNCHANGED <<tasks, templates, templateTasks, lists, now, last>>

NextAdhocConc ==
    \/ \E r \in Requests, u \in Users, pk \in {NoId, 2, 3} : ArriveAdhoc(r, u, pk)
    \/ \E r \in Requests : MarkIncomplete(r)
    \/ \E r \in Requests : ReadMaxOrder(r)
    \/ \E r \in Requests : WriteOrder(r)

SpecAdhocConc == InitAdhocConc /\ [][NextAdhocConc]_vars

----------------------------------------------------------------------------
(* Schedules edited: the users materialize their templates and update and  *)
(* delete the tasks of the schedules                                       *)

EditMaterializeRequest ==
    \E u \in Users, t \in DOMAIN MatTemplates : DailyTaskListCreate(u, "d1", t)

\* an update of the title and the due date, of the order, of the completed
\* flag, or of the completed flag with a due date the save refuses
EditUpdateRequest ==
    \E u \in Users, pk \in SchedTaskIds :
        \/ DailyTaskUpdate(u, pk, TRUE, "b", FALSE, NoOrder, FALSE, FALSE, TRUE, "d2")
        \/ DailyTaskUpdate(u, pk, FALSE, NoTitle, TRUE, PutOrder, FALSE, FALSE, FALSE, NoDate)
        \/ \E completed \in BOOLEAN :
               DailyTaskUpdate(u, pk, FALSE, NoTitle, FALSE, NoOrder, TRUE, completed, FALSE, NoDate)
        \/ DailyTaskUpdate(u, pk, FALSE, NoTitle, FALSE, NoOrder, TRUE, TRUE, TRUE, NoDate)

EditDeleteRequest ==
    \E u \in Users, pk \in SchedTaskIds : DailyTaskDelete(u, pk)

NextEdit ==
    \/ EditMaterializeRequest
    \/ EditUpdateRequest
    \/ EditDeleteRequest

SpecEdit == InitSched /\ [][NextEdit]_vars

----------------------------------------------------------------------------
(* Deleting a schedule, and the reads of a user *)

\* DailyTask.daily_task_list is on_delete=CASCADE: the DailyTasks that go
\* with the DailyTaskList `pk`
CascadeDailyTasks_All(dts, pk) == DOMAIN dts

CascadeDailyTasks(dts, pk) == {d \in DOMAIN dts : dts[d].daily_task_list = pk}

\* DailyTaskListDetailView.delete
DailyTaskListDelete(user, pk) ==
    IF ~Owns(lists, user, pk)
    THEN /\ last' = Response("DailyTaskListDelete", user, NoId, 404, "not_found")
         /\ UNCHANGED <<store, nextId, now, reqs>>
    ELSE /\ lists' = Remove(lists, {pk})
         /\ dailyTasks' = Remove(dailyTasks, CascadeDailyTasks(dailyTasks, pk))
         /\ last' = [Response("DailyTaskListDelete", user, pk, 200, "ok")
                        EXCEPT !.date = lists[pk].date]
         /\ UNCHANGED <<tasks, templates, templateTasks, nextId, now, reqs>>

\* DailyTaskListListView: the lists of the user, each with its template
DailyTaskListList(user) ==
    [l \in {x \in DOMAIN lists : lists[x].user = user} |->
        [date |-> lists[l].date, template |-> lists[l].template,
         title |-> templates[lists[l].template].title]]

\* DailyTaskListByDateView.get: the list of the user on the date with its
\* tasks, or none
DailyTaskListByDate(user, date) ==
    [l \in {x \in DOMAIN lists : lists[x].user = user /\ lists[x].date = date} |->
        [date |-> lists[l].date, template |-> lists[l].template,
         title |-> templates[lists[l].template].title,
         tasks |-> [d \in {x \in DOMAIN dailyTasks : dailyTasks[x].daily_task_list = l} |->
                        dailyTasks[d]]]]

\* AdhocTaskListView: the adhoc tasks of the user, the completed or the
\* incomplete ones
AdhocTaskList(user, completed) ==
    [d \in {x \in DOMAIN dailyTasks : /\ dailyTasks[x].user = user
                                      /\ dailyTasks[x].is_adhoc
                                      /\ dailyTasks[x].completed = completed} |->
        dailyTasks[d]]

----------------------------------------------------------------------------
(* Two users side by side: each has a task, a template, a schedule with a  *)
(* task and an adhoc task; u2 sends every kind of request, naming rows of  *)
(* its own and rows of u1, and u1 completes, reopens and reads             *)

MaxNewRows == 1         \* rows of a table inserted after the initial ones

UsersTasks == (1 :> [user |-> "u1", title |-> "a"]) @@ (2 :> [user |-> "u2", title |-> "a"])

UsersTemplateTasks == (1 :> TT(1, 1, 1)) @@ (2 :> TT(2, 2, 1))

UsersLists ==
    (1 :> [user |-> "u1", date |-> "d1", template |-> 1])
        @@ (2 :> [user |-> "u2", date |-> "d1", template |-> 2])

UsersDailyTasks ==
    (1 :> [user |-> "u1", daily_task_list |-> 1, template_task |-> 1, title |-> "a",
           due_date |-> "d1", completed |-> FALSE, completed_at |-> NoTime,
           order |-> OrderGap, is_adhoc |-> FALSE])
    @@ (2 :> [user |-> "u2", daily_task_list |-> 2, template_task |-> 2, title |-> "a",
              due_date |-> "d1", completed |-> FALSE, completed_at |-> NoTime,
              order |-> OrderGap, is_adhoc |-> FALSE])
    @@ (3 :> AdhocRow("u1", AdhocStep, FALSE))
    @@ (4 :> AdhocRow("u2", AdhocStep, FALSE))

InitUsersNext == [task |-> 3, template |-> 3, tt |-> 3, list |-> 3, dt |-> 5]

InitUsers ==
    /\ tasks = UsersTasks
    /\ templates = MatTemplates
    /\ templateTasks = UsersTemplateTasks
    /\ lists = UsersLists
    /\ dailyTasks = UsersDailyTasks
    /\ nextId = InitUsersNext
    /\ now = 1
    /\ last = NoRequest
    /\ reqs = <<>>

WithinUsers ==
    /\ nextId'.list <= InitUsersNext.list + MaxNewRows
    /\ nextId'.dt <= InitUsersNext.dt + MaxNewRows
    /\ \A d \in DOMAIN dailyTasks' : dailyTasks'[d].order <= MaxAdhocOrder

UsersTemplateRequest ==
    \E pk \in DOMAIN templates :
        \/ \E day \in Days : TemplateUpdate("u2", pk, NoTitle, TRUE, {day}, FALSE, <<>>)
        \/ TemplateUpdate("u2", pk, NoTitle, FALSE, {}, TRUE, <<>>)
        \/ TemplateDelete("u2", pk)

UsersTaskRequest ==
    \E pk \in DOMAIN UsersTasks : TaskDelete("u2", pk)

UsersListRequest ==
    \/ \E t \in DOMAIN templates : DailyTaskListCreate("u2", "d1", t) /\ WithinUsers
    \/ \E pk \in DOMAIN lists : DailyTaskListDelete("u2", pk)

UsersDailyTaskRequest ==
    \E pk \in DOMAIN dailyTasks :
        \/ DailyTaskComplete("u2", pk)
        \/ DailyTaskIncomplete("u2", pk) /\ WithinUsers

\* u1 completes and reopens the adhoc tasks, its own and those of u2
UsersOtherRequest ==
    \E pk \in {d \in DOMAIN dailyTasks : dailyTasks[d].is_adhoc} :
        \/ DailyTaskComplete("u1", pk)
        \/ DailyTaskIncomplete("u1", pk) /\ WithinUsers

UsersStatsRequest == \E u \in Users : TaskCompletionStats(u)

NextUsers ==
    \/ UsersTemplateRequest
    \/ UsersTaskRequest
    \/ UsersListRequest
    \/ UsersDailyTaskRequest
    \/ UsersOtherRequest
    \/ UsersStatsRequest

SpecUsers == InitUsers /\ [][NextUsers]_vars

----------------------------------------------------------------------------
(* Completion in every way: u2 materializes its template, makes adhoc      *)
(* tasks, and completes and reopens the tasks with the dedicated requests  *)
(* and with the update request, while time passes                          *)

WithinDone ==
    /\ Cardinality({d \in DOMAIN dailyTasks' : dailyTasks'[d].is_adhoc}) <= MaxNewRows
    /\ \A d \in DOMAIN dailyTasks' : dailyTasks'[d].order <= MaxAdhocOrder

DoneMaterializeRequest == DailyTaskListCreate("u2", "d1", 2)

DoneAdhocCreateRequest == AdhocTaskCreate("u2", "a", "d1") /\ WithinDone

DoneCompleteRequest ==
    \E pk \in DOMAIN dailyTasks : DailyTaskComplete(dailyTasks[pk].user, pk)

DoneIncompleteRequest ==
    \E pk \in DOMAIN dailyTasks : DailyTaskIncomplete(dailyTasks[pk].user, pk) /\ WithinDone

\* an update of the completed flag, alone or with a due date the save refuses
DoneUpdateRequest ==
    \E pk \in DOMAIN dailyTasks, completed \in BOOLEAN, has_due_date \in BOOLEAN :
        DailyTaskUpdate(dailyTasks[pk].user, pk, FALSE, NoTitle, FALSE, NoOrder,
                        TRUE, completed, has_due_date, NoDate)

NextDone ==
    \/ DoneMaterializeRequest
    \/ DoneAdhocCreateRequest
    \/ DoneCompleteRequest
    \/ DoneIncompleteRequest
    \/ DoneUpdateRequest
    \/ TickRequest

SpecDone == InitSched /\ [][NextDone]_vars

----------------------------------------------------------------------------
(* The adhoc queue at the top of the order column: u1 has created adhoc    *)
(* tasks and reopened one of them again and again, until its order is the  *)
(* last multiple of 10 the column takes, and has completed another; u1     *)
(* goes on with create, complete and reopen requests                       *)

TopOrder == (PositiveIntegerMax \div AdhocStep) * AdhocStep

InitQueue ==
    /\ tasks = Library
    /\ templates = MatTemplates
    /\ templateTasks = EmptyTable
    /\ lists = EmptyTable
    /\ dailyTasks = (1 :> AdhocRow("u1", TopOrder, FALSE)) @@ (2 :> AdhocRow("u1", 0, TRUE))
    /\ nextId = [task |-> 4, template |-> 3, tt |-> 1, list |-> 1, dt |-> 3]
    /\ now = 1
    /\ last = NoRequest
    /\ reqs = <<>>

WithinQueue ==
    /\ nextId'.dt <= 3 + MaxNewRows
    /\ \A d \in DOMAIN dailyTasks' :
           dailyTasks'[d].order <= MaxAdhocOrder \/ dailyTasks'[d].order = TopOrder

QueueCreateRequest == \E title \in Titles : AdhocTaskCreate("u1", title, "d1") /\ WithinQueue

QueueCompleteRequest == \E pk \in DOMAIN dailyTasks : DailyTaskComplete("u1", pk)

QueueIncompleteRequest ==
    \E pk \in DOMAIN dailyTasks : DailyTaskIncomplete("u1", pk) /\ WithinQueue

NextQueue ==
    \/ QueueCreateRequest
    \/ QueueCompleteRequest
    \/ QueueIncompleteRequest

SpecQueue == InitQueue /\ [][NextQueue]_vars

----------------------------------------------------------------------------
(* A template whose tasks list is replaced: u1 materializes its template   *)
(* for either date, completes tasks, replaces the tasks list of the        *)
(* template or updates its title and weekdays, and reads the statistics    *)

ReplaceMaterializeRequest == \E date \in Dates : DailyTaskListCreate("u1", date, 1)

ReplaceCompleteRequest == \E pk \in DOMAIN dailyTasks : DailyTaskComplete("u1", pk)

ReplaceUpdateRequest ==
    \E u \in Users :
        \/ TemplateUpdate(u, 1, "b", TRUE, {"Tuesday"}, FALSE, <<>>)
        \/ \E e \in {<<>>, <<Entry(2, 3)>>} :
               /\ TemplateUpdate(u, 1, NoTitle, FALSE, {}, TRUE, e)
               /\ nextId'.tt <= Cardinality(DOMAIN SchedTemplateTasks) + MaxNewRows + 1

ReplaceStatsRequest == TaskCompletionStats("u1")

NextReplace ==
    \/ ReplaceMaterializeRequest
    \/ ReplaceCompleteRequest
    \/ ReplaceUpdateRequest
    \/ ReplaceStatsRequest

SpecReplace == InitSched /\ [][NextReplace]_vars

----------------------------------------------------------------------------
(* Schedules made, deleted and made again: the users materialize their     *)
(* templates and delete the schedules, u1 has an adhoc task beside them    *)
(* and replaces the tasks list of its template, and the templates are      *)
(* deleted                                                                 *)

InitRedo ==
    /\ tasks = Library
    /\ templates = MatTemplates
    /\ templateTasks \in MatTemplateTasks
    /\ lists = EmptyTable
    /\ dailyTasks = (1 :> AdhocRow("u1", AdhocStep, FALSE))
    /\ nextId = [task |-> 4, template |-> 3, tt |-> 4, list |-> 1, dt |-> 2]
    /\ now = 1
    /\ last = NoRequest
    /\ reqs = <<>>

WithinRedo ==
    /\ nextId'.list <= MaxLists + MaxNewRows + 1
    /\ nextId'.tt <= 3 + MaxNewRows + 1

\* u1 asks for either date, u2 for the first
RedoMaterializeRequest ==
    \E u \in Users, date \in Dates, t \in DOMAIN MatTemplates :
        /\ (u = "u2" => date # "d2")
        /\ DailyTaskListCreate(u, date, t) /\ WithinRedo

RedoListDeleteRequest ==
    \E u \in Users, pk \in DOMAIN lists : DailyTaskListDelete(u, pk)

RedoTemplateUpdateRequest ==
    \E e \in {<<>>, <<Entry(2, 3)>>} :
        TemplateUpdate("u1", 1, NoTitle, FALSE, {}, TRUE, e) /\ WithinRedo

RedoTemplateDeleteRequest ==
    \E pk \in DOMAIN templates : TemplateDelete(templates[pk].user, pk)

NextRedo ==
    \/ RedoMaterializeRequest
    \/ RedoListDeleteRequest
    \/ RedoTemplateUpdateRequest
    \/ RedoTemplateDeleteRequest

SpecRedo == InitRedo /\ [][NextRedo]_vars

----------------------------------------------------------------------------
(* The claims *)

\* the kinds of outcome of a request that did not reach Template.save
NotSaved == {"bad_request", "not_found"}

\* the templates of `user` other than `pk`, in the store as it is
OtherTemplates(user, pk) == {t \in DOMAIN templates : templates[t].user = user /\ t # pk}

\* C1: in every reachable state of sequentially served template create,
\* update and delete requests, no two distinct templates of one user hold the
\* same weekday.
C1_WeekdayExclusive ==
    \A t1 \in DOMAIN templates, t2 \in DOMAIN templates :
        (t1 # t2 /\ templates[t1].user = templates[t2].user)
            => templates[t1].weekdays \cap templates[t2].weekdays = {}

\* two templates of one user, both scheduled, after a request was rejected
\* for a weekday conflict
C1_Witness ==
    /\ last.kind = "weekday_conflict"
    /\ \E t1 \in DOMAIN templates, t2 \in DOMAIN templates :
            /\ t1 # t2 /\ templates[t1].user = templates[t2].user
            /\ templates[t1].weekdays # {} /\ templates[t2].weekdays # {}

\* C2: a template create or update that reaches the save (its fields are well
\* formed, the template to update is the user's) is rejected for a weekday
\* conflict exactly when its weekday set meets the weekdays of another
\* template of the same user: an empty set, the template's own stored days
\* and the templates of other users never reject it.
C2_RejectedIffOverlap ==
    [][(last'.op \in {"TemplateCreate", "TemplateUpdate"} /\ last'.kind \notin NotSaved)
        => (last'.kind = "weekday_conflict"
            <=> \E t \in DOMAIN templates :
                    /\ t # last'.pk
                    /\ templates[t].user = last'.user
                    /\ templates[t].weekdays \cap last'.weekdays # {})]_vars

\* an accepted update whose days are held by a template of the other user
C2_Witness ==
    /\ last.op = "TemplateUpdate" /\ last.kind = "ok" /\ last.weekdays # {}
    /\ templates[last.pk].weekdays = last.weekdays
    /\ \E t \in DOMAIN templates :
            templates[t].user # last.user /\ templates[t].weekdays \cap last.weekdays # {}

\* C3: a create whose weekday set B meets the weekdays of a template the user
\* already has fails with a validation error (400) that names exactly the
\* days of B held by the user's templates, and writes no Template and no
\* TemplateTask.
C3_ConflictingCreate ==
    [][(/\ last'.op = "TemplateCreate"
        /\ last'.kind # "bad_request"
        /\ \E t \in OtherTemplates(last'.user, NoId) :
                templates[t].weekdays \cap last'.weekdays # {})
        => /\ last'.status = 400
           /\ last'.kind = "weekday_conflict"
           /\ last'.days = last'.weekdays \cap
                    UNION {templates[t].weekdays : t \in OtherTemplates(last'.user, NoId)}
           /\ templates' = templates
           /\ templateTasks' = templateTasks]_vars

\* a rejected create that names some but not all of the days it asked for,
\* held by two templates
C3_Witness ==
    /\ last.op = "TemplateCreate" /\ last.kind = "weekday_conflict"
    /\ last.days # {} /\ last.days # last.weekdays
    /\ Cardinality(OtherTemplates(last.user, NoId)) = 2

\* the DailyTasks of list `l` in the table `dts`
TasksOfList(dts, l) == {d \in DOMAIN dts : dts[d].daily_task_list = l}

\* C4: a materialize request for user U, date D (no list of U on D yet) and a
\* template of U with N TemplateTasks makes a new DailyTaskList (U, D,
\* template) with exactly N DailyTasks, one for each TemplateTask, each with
\* order 10 times the TemplateTask's order, the title its Task has at that
\* time, due date D, owner U, is_adhoc and completed false, and references to
\* the new list and to its TemplateTask.
C4_Materialized ==
    [][(last'.op = "DailyTaskListCreate" /\ last'.kind \in {"ok", "error"})
        => LET l == last'.pk
               source == TemplateTasksOf(last'.template)
               made == TasksOfList(dailyTasks', l)
           IN /\ l \notin DOMAIN lists
              /\ lists'[l] = [user |-> last'.user, date |-> last'.date,
                              template |-> last'.template]
              /\ made \cap DOMAIN dailyTasks = {}
              /\ Cardinality(made) = Cardinality(source)
              /\ \A tt \in source :
                    Cardinality({d \in made : dailyTasks'[d].template_task = tt}) = 1
              /\ \A d \in made :
                    LET row == dailyTasks'[d] IN
                    /\ row.template_task \in source
                    /\ row.order = 10 * templateTasks[row.template_task].order
                    /\ row.title = tasks[templateTasks[row.template_task].task].title
                    /\ row.due_date = last'.date
                    /\ row.user = last'.user
                    /\ row.is_adhoc = FALSE
                    /\ row.completed = FALSE]_vars

\* C5: when a DailyTaskList of (U, D) exists, a materialize request for
\* (U, D) that names a date and a template id, whatever the template, fails
\* with the "already exists" error (400), makes no DailyTaskList and no
\* DailyTask, and one DailyTaskList of (U, D) exists afterwards.
C5_SecondMaterialize ==
    [][(/\ last'.op = "DailyTaskListCreate"
        /\ last'.kind # "bad_request"
        /\ ListExists(last'.user, last'.date))
        => /\ last'.kind = "conflict"
           /\ last'.status = 400
           /\ lists' = lists
           /\ dailyTasks' = dailyTasks
           /\ Cardinality({l \in DOMAIN lists' :
                    lists'[l].user = last'.user /\ lists'[l].date = last'.date}) = 1]_vars

\* a refused materialize request after two lists were made
C5_Witness ==
    /\ last.op = "DailyTaskListCreate" /\ last.kind = "conflict"
    /\ Cardinality(DOMAIN lists) = 2

\* C7: materialization is all or nothing: a materialize request leaves
\* either the new DailyTaskList with one DailyTask for each TemplateTask of
\* its template, or no new DailyTaskList and no new DailyTask.
C7_AllOrNothing ==
    [][last'.op = "DailyTaskListCreate"
        => \/ lists' = lists /\ dailyTasks' = dailyTasks
           \/ /\ last'.pk \in DOMAIN lists' \ DOMAIN lists
              /\ \A tt \in TemplateTasksOf(lists'[last'.pk].template) :
                    \E d \in TasksOfList(dailyTasks', last'.pk) :
                        dailyTasks'[d].template_task = tt]_vars

\* the requests that act on a template, its TemplateTasks, the library or a
\* list after the list was made
LaterRequests == {"TemplateUpdate", "TemplateDelete", "TaskUpdate", "TaskDelete",
                  "DailyTaskListSave"}

\* C8: no request on a template, its TemplateTasks or a library Task and no
\* later save of a list adds a DailyTask to a list made before, removes one,
\* or changes the title, order, due date or completion of one.
C8_MaterializedOnce ==
    [][last'.op \in LaterRequests
        => \A l \in DOMAIN lists :
            /\ l \in DOMAIN lists'
            /\ TasksOfList(dailyTasks', l) = TasksOfList(dailyTasks, l)
            /\ \A d \in TasksOfList(dailyTasks, l) :
                    /\ dailyTasks'[d].title = dailyTasks[d].title
                    /\ dailyTasks'[d].order = dailyTasks[d].order
                    /\ dailyTasks'[d].due_date = dailyTasks[d].due_date
                    /\ dailyTasks'[d].completed = dailyTasks[d].completed
                    /\ dailyTasks'[d].completed_at = dailyTasks[d].completed_at]_vars

\* a list whose template lost its TemplateTasks and was renamed, saved again
\* with its two DailyTasks as they were made
C8_Witness ==
    /\ last.op = "DailyTaskListSave" /\ last.kind = "ok"
    /\ templates[lists[last.pk].template].title = "b"
    /\ TemplateTasksOf(lists[last.pk].template) = {}
    /\ tasks[1].title = "b"
    /\ \E d1 \in TasksOfList(dailyTasks, last.pk), d2 \in TasksOfList(dailyTasks, last.pk) :
            /\ dailyTasks[d1].title = "a" /\ dailyTasks[d1].order = 20
            /\ dailyTasks[d2].title = "b" /\ dailyTasks[d2].order = 10

\* C6: however the steps of concurrent materialize requests interleave, of
\* two requests for the same (user, date) at most one succeeds, at most one
\* DailyTaskList of a (user, date) exists in every state, and a request that
\* did not insert its list has made no DailyTask: every DailyTask belongs to
\* the list of its (user, date), one for a TemplateTask at most.
C6_OneWinner ==
    /\ \A l1 \in DOMAIN lists, l2 \in DOMAIN lists :
            (lists[l1].user = lists[l2].user /\ lists[l1].date = lists[l2].date) => l1 = l2
    /\ \A r1 \in Requests, r2 \in Requests :
            (/\ r1 # r2
             /\ reqs[r1].user = reqs[r2].user /\ reqs[r1].date = reqs[r2].date
             /\ reqs[r1].kind = "ok")
                => reqs[r2].kind # "ok" /\ reqs[r2].list = NoId
    /\ \A r \in Requests : reqs[r].list = NoId => reqs[r].made = {}
    /\ \A d \in DOMAIN dailyTasks :
            /\ dailyTasks[d].daily_task_list \in DOMAIN lists
            /\ \A e \in DOMAIN dailyTasks :
                    (/\ dailyTasks[e].user = dailyTasks[d].user
                     /\ dailyTasks[e].due_date = dailyTasks[d].due_date
                     /\ dailyTasks[e].template_task = dailyTasks[d].template_task) => e = d

\* two requests for the same (user, date) passed the existence check
\* together; one made the list and its two tasks, the insert of the other
\* was refused
C6_Witness ==
    \E r1 \in Requests, r2 \in Requests :
        /\ reqs[r1].user = reqs[r2].user /\ reqs[r1].date = reqs[r2].date
        /\ reqs[r1].kind = "ok" /\ Cardinality(reqs[r1].made) = 2
        /\ reqs[r2].kind = "error" /\ reqs[r2].list = NoId

\* C9: the complete request on an adhoc DailyTask leaves it completed, with
\* completed_at the time of the request (not null) and order 0, whatever
\* its order was.
C9_CompleteAdhoc ==
    [][(/\ last'.op = "DailyTaskComplete" /\ last'.kind = "ok"
        /\ dailyTasks[last'.pk].is_adhoc)
          => /\ dailyTasks'[last'.pk].completed
             /\ dailyTasks'[last'.pk].completed_at = now
             /\ dailyTasks'[last'.pk].completed_at # NoTime
             /\ dailyTasks'[last'.pk].order = 0
             /\ \A d \in DOMAIN dailyTasks \ {last'.pk} : dailyTasks'[d] = dailyTasks[d]]_vars

\* an adhoc task that had a positive order was completed at the second
\* instant, and has order 0
C9_Witness ==
    /\ last.op = "DailyTaskComplete" /\ last.kind = "ok" /\ last.order > 0
    /\ dailyTasks[last.pk].is_adhoc
    /\ dailyTasks[last.pk].completed /\ dailyTasks[last.pk].order = 0
    /\ dailyTasks[last.pk].completed_at = MaxClock

\* the user's adhoc tasks that are incomplete in the current state
MaxIncompleteAdhoc(user) ==
    MaxOf({dailyTasks[d].order : d \in IncompleteAdhoc(dailyTasks, user)})

\* C10: the reopen request on a completed adhoc DailyTask of a user leaves it
\* incomplete, with completed_at null and order M + 10, M the largest order
\* of the user's adhoc tasks that were incomplete just before the request (0
\* when there was none), whichever request completed it and whatever order
\* it had while completed.
C10_ReopenAtBottom ==
    [][(/\ last'.op = "DailyTaskIncomplete" /\ last'.kind = "ok"
        /\ dailyTasks[last'.pk].is_adhoc /\ dailyTasks[last'.pk].completed)
          => /\ ~dailyTasks'[last'.pk].completed
             /\ dailyTasks'[last'.pk].completed_at = NoTime
             /\ dailyTasks'[last'.pk].order = MaxIncompleteAdhoc(last'.user) + AdhocStep]_vars

\* C11: every DailyTask of a schedule has the order it got when the schedule
\* was materialized (10 times its TemplateTask's order) through every
\* sequence of complete and reopen requests, and such a request changes
\* nothing of the task but completed and completed_at.
C11_TemplatedOrderKept ==
    /\ [](\A d \in DOMAIN dailyTasks :
            ~dailyTasks[d].is_adhoc
                => dailyTasks[d].order
                     = OrderGap * templateTasks[dailyTasks[d].template_task].order)
    /\ [][(/\ last'.op \in {"DailyTaskComplete", "DailyTaskIncomplete", "DailyTaskUpdate"}
           /\ last'.kind = "ok"
           /\ ~dailyTasks[last'.pk].is_adhoc)
            => [dailyTasks'[last'.pk] EXCEPT
                    !.completed = dailyTasks[last'.pk].completed,
                    !.completed_at = dailyTasks[last'.pk].completed_at]
                 = dailyTasks[last'.pk]]_vars

\* a task of a schedule, of order 20, was reopened after the clock moved,
\* while the other task of the schedule stays completed since the first
\* instant
C11_Witness ==
    /\ last.op = "DailyTaskIncomplete" /\ last.kind = "ok"
    /\ ~dailyTasks[last.pk].is_adhoc
    /\ ~dailyTasks[last.pk].completed
    /\ dailyTasks[last.pk].order = 20
    /\ now = MaxClock
    /\ \E d \in DOMAIN dailyTasks :
          /\ dailyTasks[d].daily_task_list = dailyTasks[last.pk].daily_task_list
          /\ dailyTasks[d].completed /\ dailyTasks[d].completed_at = 1

\* C12: an adhoc create request that makes a task gives it order 10 more
\* than the largest order of the user's incomplete adhoc tasks, 10 when the
\* user has none (completed adhoc tasks, tasks of schedules and tasks of
\* other users do not count), is_adhoc true, completed false, no list and no
\* template task; no other DailyTask changes.
C12_AdhocAppended ==
    [][(last'.op = "AdhocTaskCreate" /\ last'.kind = "ok")
        => LET mine == {d \in DOMAIN dailyTasks :
                          /\ dailyTasks[d].user = last'.user
                          /\ dailyTasks[d].is_adhoc
                          /\ ~dailyTasks[d].completed}
               row == dailyTasks'[last'.pk]
           IN /\ last'.pk \notin DOMAIN dailyTasks
              /\ DOMAIN dailyTasks' = DOMAIN dailyTasks \cup {last'.pk}
              /\ \A d \in DOMAIN dailyTasks : dailyTasks'[d] = dailyTasks[d]
              /\ row.user = last'.user
              /\ row.is_adhoc /\ ~row.completed /\ row.completed_at = NoTime
              /\ row.daily_task_list = NoId /\ row.template_task = NoId
              /\ IF mine = {} THEN row.order = 10
                 ELSE \E m \in mine :
                        /\ \A d \in mine : dailyTasks[d].order <= dailyTasks[m].order
                        /\ row.order = dailyTasks[m].order + 10]_vars

\* a user whose only other adhoc task is completed with order 10, and whose
\* schedule has an incomplete task of order 10, makes an adhoc task: order 10
C12_Witness ==
    /\ last.op = "AdhocTaskCreate" /\ last.kind = "ok"
    /\ dailyTasks[last.pk].order = 10
    /\ \E d \in DOMAIN dailyTasks :
          /\ d # last.pk /\ dailyTasks[d].user = last.user
          /\ dailyTasks[d].is_adhoc /\ dailyTasks[d].completed /\ dailyTasks[d].order = 10
    /\ \E d \in DOMAIN dailyTasks :
          /\ dailyTasks[d].user = last.user /\ ~dailyTasks[d].is_adhoc
          /\ ~dailyTasks[d].completed /\ dailyTasks[d].order = 10

\* C13: deleting a library Task deletes the TemplateTasks that bind it, in
\* whatever template, and no other; every DailyTask stays, with all its
\* fields as they were, but that the template_task of just the DailyTasks
\* that pointed at a deleted TemplateTask is null.
C13_TaskDeleted ==
    [][(last'.op = "TaskDelete" /\ last'.kind = "ok")
        => LET bound == {x \in DOMAIN templateTasks : templateTasks[x].task = last'.pk} IN
           /\ last'.pk \in DOMAIN tasks /\ last'.pk \notin DOMAIN tasks'
           /\ DOMAIN templateTasks' = DOMAIN templateTasks \ bound
           /\ \A x \in DOMAIN templateTasks' : templateTasks'[x] = templateTasks[x]
           /\ DOMAIN dailyTasks' = DOMAIN dailyTasks
           /\ \A d \in DOMAIN dailyTasks :
                 IF dailyTasks[d].template_task \in bound
                 THEN /\ dailyTasks'[d].template_task = NoId
                      /\ [dailyTasks'[d] EXCEPT !.template_task = dailyTasks[d].template_task]
                            = dailyTasks[d]
                 ELSE dailyTasks'[d] = dailyTasks[d]]_vars

\* a task was deleted whose TemplateTask a completed DailyTask of a schedule
\* pointed at; the other DailyTask of the schedule points at its TemplateTask
C13_Witness ==
    /\ last.op = "TaskDelete" /\ last.kind = "ok"
    /\ \E d \in DOMAIN dailyTasks, e \in DOMAIN dailyTasks :
          /\ dailyTasks[d].daily_task_list = dailyTasks[e].daily_task_list
          /\ dailyTasks[d].template_task = NoId /\ ~dailyTasks[d].is_adhoc
          /\ dailyTasks[d].completed /\ dailyTasks[d].order = 10
          /\ dailyTasks[e].template_task \in DOMAIN templateTasks

\* C14: deleting a Template that a DailyTaskList refers to fails and leaves
\* the Template, its TemplateTasks, the DailyTaskLists and the DailyTasks as
\* they were; deleting a Template that no DailyTaskList refers to succeeds
\* and removes the Template and its TemplateTasks, and no other.
C14_TemplateDeleteProtected ==
    [][(last'.op = "TemplateDelete" /\ last'.kind # "not_found")
        => IF \E l \in DOMAIN lists : lists[l].template = last'.pk
           THEN /\ last'.kind = "protected" /\ last'.status = 400
                /\ templates' = templates /\ templateTasks' = templateTasks
                /\ lists' = lists /\ dailyTasks' = dailyTasks
           ELSE LET own == {x \in DOMAIN templateTasks :
                              templateTasks[x].template = last'.pk} IN
                /\ last'.kind = "ok" /\ last'.status = 200
                /\ DOMAIN templates' = DOMAIN templates \ {last'.pk}
                /\ \A t \in DOMAIN templates' : templates'[t] = templates[t]
                /\ DOMAIN templateTasks' = DOMAIN templateTasks \ own
                /\ \A x \in DOMAIN templateTasks' : templateTasks'[x] = templateTasks[x]
                /\ lists' = lists]_vars

\* the delete of a template with a schedule and two TemplateTasks was
\* refused, after the other template, without a schedule, was deleted
C14_Witness ==
    /\ last.op = "TemplateDelete" /\ last.kind = "protected"
    /\ last.pk \in DOMAIN templates
    /\ Cardinality({x \in DOMAIN templateTasks : templateTasks[x].template = last.pk}) = 2
    /\ \E l \in DOMAIN lists : lists[l].template = last.pk
    /\ Cardinality(DOMAIN templates) = 1

\* the request was answered "not found" (404) and wrote nothing
NotFoundNoWrite == last'.kind = "not_found" /\ last'.status = 404 /\ store' = store

\* the "tasks" list `entries` names a task that exists and is not `user`'s
NamesForeignTask(user, entries) ==
    \E i \in DOMAIN entries :
        entries[i].task_id \in DOMAIN tasks /\ tasks[entries[i].task_id].user # user

\* C15: a request in which the acting user names a Template of another user,
\* or, in the "tasks" list of a template create or update that is valid
\* otherwise, a Task of another user, is answered "not found" (404), as for
\* an id that does not exist, and writes nothing.
C15_ForeignIsNotFound ==
    [][\A u \in Users :
        /\ \A pk \in DOMAIN templates :
              (templates[pk].user # u
                 /\ \/ TemplateDelete(u, pk)
                    \/ \E e \in TasksInputs : TemplateUpdate(u, pk, NoTitle, FALSE, {}, TRUE, e))
                => NotFoundNoWrite
        /\ \A w \in SUBSET Days, e \in TasksInputs :
              (/\ NamesForeignTask(u, e)
               /\ clean(NoId, u, w) = {}
               /\ TemplateCreate(u, "a", w, e))
                => NotFoundNoWrite
        /\ \A pk \in DOMAIN templates, e \in TasksInputs :
              (/\ NamesForeignTask(u, e)
               /\ templates[pk].user = u
               /\ TemplateUpdate(u, pk, NoTitle, FALSE, {}, TRUE, e))
                => NotFoundNoWrite]_vars

\* the DailyTasks that refer to TemplateTask `tt`
InstancesOf(tt) == {d \in DOMAIN dailyTasks : dailyTasks[d].template_task = tt}

\* the completed ones among them
CompletedInstancesOf(tt) == {d \in InstancesOf(tt) : dailyTasks[d].completed}

\* the statistics have an entry for just the TemplateTasks of the templates
\* of the acting user, with the counts of the DailyTasks that refer to it
StatsCounts ==
    /\ DOMAIN last.stats
         = {x \in DOMAIN templateTasks : templates[templateTasks[x].template].user = last.user}
    /\ \A tt \in DOMAIN last.stats :
          /\ last.stats[tt].total_instances = Cardinality(InstancesOf(tt))
          /\ last.stats[tt].completed_instances = Cardinality(CompletedInstancesOf(tt))
          /\ last.stats[tt].completed_instances <= last.stats[tt].total_instances
          /\ last.stats[tt].completion_rate >= 0
          /\ last.stats[tt].completion_rate <= 100 * Hundredths
          /\ (last.stats[tt].total_instances = 0) => last.stats[tt].completion_rate = 0
          /\ (last.stats[tt].total_instances = 5 /\ last.stats[tt].completed_instances = 2)
                => last.stats[tt].completion_rate = 40 * Hundredths

\* C16 as amended: the statistics report, for every TemplateTask tt of a
\* template of the acting user, total = the number of DailyTasks that refer
\* to tt, completed = the number of those that are completed, and rate = the
\* hundredth nearest to completed*100/total when total > 0, 0 when total = 0;
\* so completed <= total, 0 <= rate <= 100, and 2 of 5 gives 40.
C16_StatsRounded ==
    (last.op = "TaskCompletionStats")
        => /\ StatsCounts
           /\ \A tt \in DOMAIN last.stats :
                 LET total == last.stats[tt].total_instances
                     exact == last.stats[tt].completed_instances * 100 * Hundredths
                     rate == last.stats[tt].completion_rate
                 IN total > 0 => /\ 2 * (rate * total - exact) <= total
                                 /\ 2 * (exact - rate * total) <= total

\* the statistics of u1 with 2 of 5 tasks completed for one TemplateTask
\* (40) and 2 of 3 for the other (66.67)
C16_Witness ==
    /\ last.op = "TaskCompletionStats" /\ last.user = "u1"
    /\ \E tt \in DOMAIN last.stats :
          /\ last.stats[tt].total_instances = 5
          /\ last.stats[tt].completed_instances = 2
          /\ last.stats[tt].completion_rate = 40 * Hundredths
    /\ \E tt \in DOMAIN last.stats :
          /\ last.stats[tt].total_instances = 3
          /\ last.stats[tt].completed_instances = 2
          /\ last.stats[tt].completion_rate = 66 * Hundredths + 67

\* C16 as stated: the rate is completed*100/total itself.
C16_StatsExact ==
    (last.op = "TaskCompletionStats")
        => /\ StatsCounts
           /\ \A tt \in DOMAIN last.stats :
                 last.stats[tt].total_instances > 0
                    => last.stats[tt].completion_rate * last.stats[tt].total_instances
                         = last.stats[tt].completed_instances * 100 * Hundredths

\* C17: however the steps of concurrent template create and update requests
\* interleave, no two templates of a user hold the same weekday in any
\* state, and of two requests of a user that write different templates with
\* overlapping weekday sets at most one succeeds.
C17_ConcurrentExclusive ==
    /\ \A t1 \in DOMAIN templates, t2 \in DOMAIN templates :
          (t1 # t2 /\ templates[t1].user = templates[t2].user)
              => templates[t1].weekdays \cap templates[t2].weekdays = {}
    /\ \A r1 \in Requests, r2 \in Requests :
          (/\ r1 # r2
           /\ reqs[r1].user = reqs[r2].user
           /\ reqs[r1].weekdays \cap reqs[r2].weekdays # {}
           /\ reqs[r1].kind = "ok" /\ reqs[r2].kind = "ok")
              => reqs[r1].pk = reqs[r2].pk

\* C18: however the steps of two concurrent adhoc create or reopen requests
\* of one user interleave, the two tasks they write do not end with the
\* same order.
C18_NoSameOrder ==
    \A r1 \in Requests, r2 \in Requests :
        (/\ reqs[r1].user = reqs[r2].user
         /\ reqs[r1].kind = "ok" /\ reqs[r2].kind = "ok"
         /\ reqs[r1].pk # reqs[r2].pk)
            => dailyTasks[reqs[r1].pk].order # dailyTasks[reqs[r2].pk].order

\* C19: a template create request that fails, for whatever reason, leaves
\* no Template and no TemplateTask of the request in the store.
C19_FailedCreateLeavesNothing ==
    [][(last'.op = "TemplateCreate" /\ last'.kind # "ok")
        => templates' = templates /\ templateTasks' = templateTasks]_vars


\* C20: an update or a deletion of one DailyTask changes no Template, no
\* TemplateTask, no library Task and no DailyTaskList, adds no DailyTask, and
\* leaves every other DailyTask in place with all its fields as they were
C20_OnlyThatDailyTask ==
    [][last'.op \in {"DailyTaskUpdate", "DailyTaskDelete"}
        => /\ tasks' = tasks
           /\ templates' = templates
           /\ templateTasks' = templateTasks
           /\ lists' = lists
           /\ DOMAIN dailyTasks' \subseteq DOMAIN dailyTasks
           /\ \A d \in DOMAIN dailyTasks \ {last'.pk} :
                  d \in DOMAIN dailyTasks' /\ dailyTasks'[d] = dailyTasks[d]]_vars

\* a DailyTask was deleted, and after it the same schedule still holds a task
\* that was updated before and another user's schedule holds a task
C20_Witness ==
    /\ last.op = "DailyTaskDelete"
    /\ last.kind = "ok"
    /\ last.pk \notin DOMAIN dailyTasks
    /\ \E d \in DOMAIN dailyTasks :
           /\ dailyTasks[d].user = last.user
           /\ dailyTasks[d].daily_task_list \in DOMAIN lists
           /\ dailyTasks[d].due_date = "d2"
           /\ dailyTasks[d].completed
    /\ \E d \in DOMAIN dailyTasks : dailyTasks[d].user # last.user


\* every DailyTaskList references a Template of its own user, and every
\* DailyTask of a list has the owner of the list
ListsOwned ==
    /\ \A l \in DOMAIN lists : Owns(templates, lists[l].user, lists[l].template)
    /\ \A d \in DOMAIN dailyTasks :
           dailyTasks[d].daily_task_list # NoId
               => Owns(lists, dailyTasks[d].user, dailyTasks[d].daily_task_list)

\* C21: in every reachable state every DailyTaskList references a Template of
\* the list's user and every DailyTask of a list has the list's owner; a
\* materialize request that names a template of another user is refused and
\* writes nothing.
C21_SameOwner ==
    /\ []ListsOwned
    /\ [][(/\ last'.op = "DailyTaskListCreate"
           /\ last'.template \in DOMAIN templates
           /\ templates[last'.template].user # last'.user)
           => /\ last'.kind \in {"conflict", "not_found"}
              /\ UNCHANGED store]_vars

\* u1 asked for a list from the template of u2 on a date without a list of
\* u1 and was refused, while both users have a list with DailyTasks
C21_Witness ==
    /\ last.op = "DailyTaskListCreate"
    /\ last.kind = "not_found"
    /\ last.template \in DOMAIN templates
    /\ templates[last.template].user # last.user
    /\ \A u \in Users : \E d \in DOMAIN dailyTasks :
           dailyTasks[d].user = u /\ dailyTasks[d].daily_task_list \in DOMAIN lists


\* the rows of a table that `user` owns
RowsOf(table, user) == [pk \in {x \in DOMAIN table : table[x].user = user} |-> table[pk]]

\* the Tasks, Templates, TemplateTasks, DailyTaskLists and DailyTasks of `user`
EntitiesOf(user) ==
    <<RowsOf(tasks, user), RowsOf(templates, user),
      [tt \in {x \in DOMAIN templateTasks : templates[templateTasks[x].template].user = user} |->
          templateTasks[tt]],
      RowsOf(lists, user), RowsOf(dailyTasks, user)>>

\* what the reads of `user` return
ReadsOf(user) ==
    <<DailyTaskListList(user), [date \in Dates |-> DailyTaskListByDate(user, date)],
      AdhocTaskList(user, TRUE), AdhocTaskList(user, FALSE), Stats(user)>>

\* what the requests of `user` look up before they write: the weekday
\* conflicts of a template, the list of a date, the order of the next adhoc
\* task, the TemplateTasks of a template of the user
LookupsOf(user) ==
    <<[pk \in 0..nextId.template |-> clean(pk, user, Days)],
      [date \in Dates |-> ListExists(user, date)],
      NextAdhocOrder(dailyTasks, user),
      [t \in {x \in DOMAIN templates : templates[x].user = user} |-> OrderedTemplateTasks(t)]>>

C23_CompletedAdhocAtZero ==
    \A d \in DOMAIN dailyTasks :
        (dailyTasks[d].is_adhoc /\ dailyTasks[d].completed) => dailyTasks[d].order = 0


\* C24: an update request with completed=true on an incomplete adhoc task
\* leaves the order, completed and completed_at that the complete request
\* would leave (order 0), and an update request with completed=false on a
\* completed adhoc task leaves the order that the reopen request would leave
\* (10 above the largest order of the user's incomplete adhoc tasks).
C24_SameTransitions ==
    [][(/\ last'.op = "DailyTaskUpdate" /\ last'.kind = "ok"
        /\ dailyTasks[last'.pk].is_adhoc
        /\ dailyTasks'[last'.pk].completed # dailyTasks[last'.pk].completed)
          => LET pk == last'.pk
                 task == dailyTasks[pk]
                 by_complete == mark_complete([task EXCEPT !.order = CompletedOrder(task)])
                 by_reopen == NextAdhocOrder([dailyTasks EXCEPT ![pk] = mark_incomplete(task)],
                                             last'.user)
             IN IF dailyTasks'[pk].completed
                THEN /\ dailyTasks'[pk].order = by_complete.order
                     /\ dailyTasks'[pk].completed_at = by_complete.completed_at
                ELSE dailyTasks'[pk].order = by_reopen]_vars


\* C25: a template update request that fails (weekday conflict, a token that
\* is no weekday, a task entry without task_id or order, a task of another
\* user, a task listed twice) leaves the title and the weekdays of the
\* Template and all its TemplateTasks as they were before the request.
C25_FailedUpdateLeavesTemplate ==
    [][(last'.op = "TemplateUpdate" /\ last'.kind # "ok" /\ last'.pk # NoId)
        => /\ templates'[last'.pk] = templates[last'.pk]
           /\ [tt \in TemplateTasksOf(last'.pk) |-> templateTasks[tt]]
                = [tt \in {x \in DOMAIN templateTasks' :
                               templateTasks'[x].template = last'.pk} |-> templateTasks'[tt]]]_vars


\* C26: in every reachable state a DailyTask is completed if and only if its
\* completed_at is not null; the DailyTasks a materialize request and an
\* adhoc create request make start incomplete with completed_at null, and
\* every complete, reopen and update request keeps the two fields in step.
C26_CompletedIffCompletedAt ==
    /\ [](\A d \in DOMAIN dailyTasks :
            dailyTasks[d].completed <=> dailyTasks[d].completed_at # NoTime)
    /\ [][\A d \in DOMAIN dailyTasks' \ DOMAIN dailyTasks :
            ~dailyTasks'[d].completed /\ dailyTasks'[d].completed_at = NoTime]_vars

\* a task of a schedule was completed at the last instant with the update
\* request, after an adhoc task was completed and reopened
C26_Witness ==
    /\ last.op = "DailyTaskUpdate" /\ last.kind = "ok"
    /\ ~dailyTasks[last.pk].is_adhoc
    /\ dailyTasks[last.pk].completed
    /\ dailyTasks[last.pk].completed_at = MaxClock
    /\ \E d \in DOMAIN dailyTasks :
           /\ dailyTasks[d].is_adhoc /\ ~dailyTasks[d].completed
           /\ dailyTasks[d].order = 2 * AdhocStep


\* C27: after any sequence of adhoc create, complete and reopen requests of
\* one user the orders of the user's incomplete adhoc tasks are positive and
\* pairwise distinct, and the task created or reopened last has the largest
\* of them.
C27_QueueOrdered ==
    /\ [](\A user \in Users :
            \A d \in IncompleteAdhoc(dailyTasks, user) :
                /\ dailyTasks[d].order > 0
                /\ \A e \in IncompleteAdhoc(dailyTasks, user) \ {d} :
                       dailyTasks[e].order # dailyTasks[d].order)
    /\ [][(last'.op \in {"AdhocTaskCreate", "DailyTaskIncomplete"} /\ last'.pk # NoId)
            => \A e \in IncompleteAdhoc(dailyTasks', last'.user) \ {last'.pk} :
                   dailyTasks'[e].order < dailyTasks'[last'.pk].order]_vars


TemplateTaskRefs(dts) == [d \in DOMAIN dts |-> dts[d].template_task]

\* C29: a template update that gets to its tasks list deletes every
\* TemplateTask of the template and makes new ones: the template_task of
\* every DailyTask made from the template becomes null, also for a task that
\* stays in the template, nothing else of a DailyTask changes, and the
\* statistics report total 0 for every TemplateTask of the template; an
\* update without a tasks list leaves every TemplateTask and every
\* template_task reference as it was.
C29_TasksListReplaces ==
    [][(last'.op = "TemplateUpdate" /\ last'.pk # NoId) =>
        \A u \in {last'.user}, pk \in {last'.pk}, title \in {NoTitle, "b"},
           has_weekdays \in BOOLEAN, weekdays \in {{}, {"Tuesday"}},
           entries \in {<<>>, <<Entry(2, 3)>>} :
            /\ (/\ TemplateUpdate(u, pk, title, has_weekdays, weekdays, TRUE, entries)
                /\ last'.kind \in {"ok", "bad_entry", "error"})
                  => /\ TemplateTasksOf(pk) \cap DOMAIN templateTasks' = {}
                     /\ DOMAIN dailyTasks' = DOMAIN dailyTasks
                     /\ \A d \in DOMAIN dailyTasks :
                           dailyTasks'[d] =
                               IF dailyTasks[d].template_task \in TemplateTasksOf(pk)
                               THEN [dailyTasks[d] EXCEPT !.template_task = NoId]
                               ELSE dailyTasks[d]
                     /\ \A tt \in DOMAIN templateTasks' :
                           templateTasks'[tt].template = pk
                               => /\ tt \in DOMAIN Stats(u)'
                                  /\ Stats(u)'[tt].total_instances = 0
                                  /\ Stats(u)'[tt].completion_rate = 0
            /\ TemplateUpdate(u, pk, title, has_weekdays, weekdays, FALSE, entries)
                  => /\ templateTasks' = templateTasks
                     /\ TemplateTaskRefs(dailyTasks') = TemplateTaskRefs(dailyTasks)]_vars

\* the tasks list of a template was replaced by one that keeps a task: the
\* DailyTask made from that task has lost its reference, and the statistics
\* report total 0 for the task's new TemplateTask
C29_Witness ==
    /\ last.op = "TemplateUpdate" /\ last.kind = "ok"
    /\ \E tt \in TemplateTasksOf(last.pk) :
          /\ Stats(last.user)[tt].total_instances = 0
          /\ \E d \in DOMAIN dailyTasks :
                /\ dailyTasks[d].template_task = NoId
                /\ dailyTasks[d].daily_task_list \in DOMAIN lists
                /\ lists[dailyTasks[d].daily_task_list].template = last.pk
                /\ dailyTasks[d].title = tasks[templateTasks[tt].task].title


\* deleting a DailyTaskList removes the list and the DailyTasks that belong
\* to it, and nothing else: no adhoc task, no task of another list
ListDeleteCascades ==
    (last'.op = "DailyTaskListDelete" /\ last'.kind = "ok")
        => LET l == last'.pk IN
           /\ DOMAIN lists' = DOMAIN lists \ {l}
           /\ \A x \in DOMAIN lists' : lists'[x] = lists[x]
           /\ DOMAIN dailyTasks' = DOMAIN dailyTasks \ TasksOfList(dailyTasks, l)
           /\ \A d \in DOMAIN dailyTasks' : dailyTasks'[d] = dailyTasks[d]
           /\ tasks' = tasks /\ templates' = templates /\ templateTasks' = templateTasks
           /\ ~\E x \in DOMAIN lists' :
                  lists'[x].user = lists[l].user /\ lists'[x].date = lists[l].date

\* the materialize request that follows the deletion of the list of its
\* user and date, with a template of the user, succeeds and makes one
\* DailyTask for each TemplateTask the template has at that time
MaterializeAgain ==
    (/\ last.op = "DailyTaskListDelete" /\ last.kind = "ok"
     /\ last'.op = "DailyTaskListCreate"
     /\ last'.user = last.user /\ last'.date = last.date
     /\ Owns(templates, last'.user, last'.template))
        => LET l == last'.pk
               source == TemplateTasksOf(last'.template)
               made == TasksOfList(dailyTasks', l)
           IN /\ last'.kind = "ok" /\ last'.status = 201
              /\ l \in DOMAIN lists' \ DOMAIN lists
              /\ lists'[l].user = last'.user /\ lists'[l].date = last'.date
              /\ Cardinality(made) = Cardinality(source)
              /\ \A tt \in source :
                    \E d \in made :
                        /\ dailyTasks'[d].template_task = tt
                        /\ dailyTasks'[d].order = OrderGap * templateTasks[tt].order
                        /\ dailyTasks'[d].title = tasks[templateTasks[tt].task].title

\* a template that no list refers to is deleted when its user asks
DeletableWithoutList ==
    (/\ last'.op = "TemplateDelete" /\ last'.pk # NoId
     /\ ~\E x \in DOMAIN lists : lists[x].template = last'.pk)
        => last'.kind = "ok" /\ last'.pk \notin DOMAIN templates'

\* C30: deleting a DailyTaskList deletes the DailyTasks that belong to it and
\* no adhoc task and no task of another list; afterwards a materialize
\* request for the same user and date succeeds and makes its DailyTasks from
\* the TemplateTasks the template has at that time, and the template can be
\* deleted once no list refers to it.
C30_DeleteAndMaterializeAgain ==
    [][ListDeleteCascades /\ MaterializeAgain /\ DeletableWithoutList]_vars

====
